---- MODULE Spec2Model ----
(***************************************************************************)
(* claude-all: the agent-loop driver (lib/core.js, claude-all.js), the     *)
(* subprocess wrapper runClaude, task-list generation and the run          *)
(* archiver, modelled as state machines over the files of the working     *)
(* root.                                                                   *)
(*                                                                         *)
(* Text is a sequence of tokens.  The completion marker is two tokens, so  *)
(* that a text can hold it whole, hold one half of it, or hold its halves  *)
(* separated by other text.                                                *)
(***************************************************************************)
EXTENDS Integers, Sequences, FiniteSets, TLC

\* ---------------------------------------------------------------- bounds
MaxIter == 3        \* largest maxIterations handed to the loop
MaxOut == 2         \* longest text (in tokens) a child writes on stdout
MaxErr == 1         \* longest text (in tokens) a child writes on stderr
MaxStrLen == 2      \* longest branch name / tracking-file content (tokens)
MaxDay == 2         \* last calendar day of the clock
MaxOps == 1         \* longest sequence of file operations in SpecFs
MaxNotes == 1       \* most entries the agent has appended to the progress log
MaxCliIter == 1     \* largest --max-iterations of the whole-CLI runs (SpecCli)
MaxStories == 2     \* longest userStories array handed to validatePrdJson
MaxDefects == 2     \* most fields the stories of such an array lack between them
MaxListed == 3      \* longest userStories array the status reader counts
MaxDepth == 2       \* deepest working root and install root (path segments)
MaxArgs == 3        \* longest argument list handed to parseArgs
MaxRuns == 3        \* launches of claude-all.js in one working root

\* ------------------------------------------------------------- constants
COMPLETION_SIGNAL == <<"<promise>COMPLETE", "</promise>">>

retries == 3

\* what the child writes: on stdout the two halves of the marker, in any
\* number and order; on stderr other text
OutTokens == {"<promise>COMPLETE", "</promise>"}
ErrTokens == {"x"}

VARIABLES
  variant,        \* "lib" (lib/core.js) or "cli" (claude-all.js)
  silent,         \* options.silent
  onIteration,    \* TRUE when options.onIteration is supplied
  onComplete,     \* TRUE when options.onComplete is supplied
  maxIterations,  \* options.maxIterations
  promptExists,   \* config.PROMPT_FILE is readable
  inputFile,      \* the description file named on the command line:
                  \* "none", "missing" (named, does not exist) or "present"
  stdin,          \* what the user types when asked for a description
  pc,             \* position of the driver
  i,              \* loop variable of runAgentLoop
  chk,            \* loop variable of checkFile
  child,          \* the spawned claude process of the current runClaude call
  output,         \* runClaude's output buffer
  live,           \* number of runClaude promises not yet settled
  invocations,    \* number of runClaude calls made by runAgentLoop
  events,         \* observable calls, in order: callbacks and spawns
  settled,        \* per settled loop iteration: did its output hold the marker
  exitCode,       \* code of the result in hand; NoCode while a call is pending
  result,         \* what the awaited call returned: "none", "true", "false", "error"
  processExit,    \* the code process.exit was called with; NoCode while running
  genResult,      \* what generatePrdJson returned: "none", "true", "false"
  prdFile,        \* config.PRD_FILE
  lastBranchFile, \* config.LAST_BRANCH_FILE
  progressFile,   \* config.PROGRESS_FILE
  archive,        \* config.ARCHIVE_DIR: folder name -> the two copies
  today,          \* the date new Date() reports
  lastCall,       \* the file operation that ran last, and how it ended
  status,         \* what hasIncompleteStories returned last
  ops,            \* number of file operations performed
  fn,             \* the pure function under call; "none" in the runs of the CLI
  prdArg,         \* the decoded JSON value handed to validatePrdJson
  validation,     \* what validatePrdJson returned, or that it threw
  roots,          \* the (workingDir, scriptDir) pairs of successive createConfig calls
  configs,        \* the records createConfig returned, in call order
  argv,           \* the argument list handed to parseArgs
  parsed,         \* what parseArgs returned
  runs,           \* the branch names of the task lists the runs so far started with
  pc2             \* position of a second claude-all.js process in the same
                  \* working root; "none" when there is none

optVars == <<variant, silent, onIteration, onComplete, maxIterations, promptExists,
             inputFile, stdin>>
loopVars == <<pc, i, chk, child, output, live, invocations, events, settled, exitCode, result,
              processExit, genResult>>
fsVars == <<lastBranchFile, progressFile, archive, today, lastCall, status, ops>>
fnVars == <<fn, prdArg, validation, roots, configs, argv, parsed>>
runVars == <<runs, pc2>>
vars == <<optVars, loopVars, prdFile, fsVars, fnVars, runVars>>

\* ------------------------------------------------------------------ text
Texts(S, n) == UNION {[1..k -> S] : k \in 0..n}

\* String.prototype.includes
Includes(text, pat) ==
  \E k \in 0..(Len(text) - Len(pat)) : SubSeq(text, k + 1, k + Len(pat)) = pat

\* ----------------------------------------------------------------- files
PassesValues == {"true", "false"}

\* A file is a record; kind says whether it exists and what JSON.parse
\* makes of it: "absent", "corrupt" (JSON.parse throws), "null" (the JSON
\* value null), "scalar" (a JSON value without properties of interest),
\* "object".  branchName <<>> stands for a missing or empty branchName.
NoPrd == [kind |-> "absent", branchName |-> <<>>, passes |-> <<>>]
CorruptPrd == [kind |-> "corrupt", branchName |-> <<>>, passes |-> <<>>]
NullPrd == [kind |-> "null", branchName |-> <<>>, passes |-> <<>>]
ScalarPrd == [kind |-> "scalar", branchName |-> <<>>, passes |-> <<>>]
ObjectPrd(b, p) == [kind |-> "object", branchName |-> b, passes |-> p]

\* the userStories of the task list the loop works on: none, or one story
StoryLists == Texts(PassesValues, 1)

\* fs.existsSync(prdFile)
PrdExists(f) == f.kind # "absent"

\* JSON.parse(fs.readFileSync(prdFile)) does not throw
PrdParses(f) == f.kind \in {"null", "scalar", "object"}

hasPrdJson_ExistsOnly(f) == PrdExists(f)

hasPrdJson(f) == PrdExists(f) /\ PrdParses(f)

\* every story of the task list has passes = true
AllStoriesPass(f) ==
  /\ f.kind = "object"
  /\ Len(f.passes) > 0
  /\ \A k \in 1..Len(f.passes) : f.passes[k] = "true"

BranchTokens == {"ralph/", "a", " "}

\* branch names and tracking-file contents; " " is a whitespace character
Strs == Texts(BranchTokens, MaxStrLen)

NoChild == [state |-> "none", out |-> <<>>, err |-> <<>>]
NoCall == [op |-> "none", fault |-> "none"]
NoStatus == [exists |-> FALSE, incomplete |-> FALSE, total |-> -1, remaining |-> -1,
             completed |-> -1, projectName |-> <<>>]

NoFile == [exists |-> FALSE, text |-> <<>>]
NoProgress == [exists |-> FALSE, started |-> 0, notes |-> 0]

\* one process, in its first run
Alone ==
  /\ runs = <<>>
  /\ pc2 = "none"

\* a working root without tracking file, progress log or archive
FsIdle ==
  /\ lastBranchFile = NoFile
  /\ progressFile = NoProgress
  /\ archive = <<>>
  /\ today = 1
  /\ lastCall = NoCall
  /\ status = NoStatus
  /\ ops = 0

\* ------------------------------------------------------------ runClaude
ExitCodes == {0, 1}
NoCode == -1

ChildTexts == Texts(OutTokens, MaxOut) \X Texts(ErrTokens, MaxErr)

\* spawn('claude', ...): a new child that will write t[1] on stdout and
\* t[2] on stderr; the call's buffer starts empty and its promise is pending
SpawnChild(t) == [state |-> "running", out |-> t[1], err |-> t[2]]

ChildStdout_Prepend ==
  /\ child.state = "running"
  /\ child.out # <<>>
  /\ \E n \in 1..Len(child.out) :
       /\ output' = SubSeq(child.out, 1, n) \o output
       /\ child' = [child EXCEPT !.out = SubSeq(child.out, n + 1, Len(child.out))]
  /\ UNCHANGED <<optVars, runVars, fnVars, pc, i, chk, live, invocations, events, settled, exitCode, result,
                 processExit, genResult, prdFile, fsVars>>

\* claude.stdout.on('data'): the next chunk of stdout is appended
ChildStdout ==
  /\ child.state = "running"
  /\ child.out # <<>>
  /\ \E n \in 1..Len(child.out) :
       /\ output' = output \o SubSeq(child.out, 1, n)
       /\ child' = [child EXCEPT !.out = SubSeq(child.out, n + 1, Len(child.out))]
  /\ UNCHANGED <<optVars, runVars, fnVars, pc, i, chk, live, invocations, events, settled, exitCode, result,
                 processExit, genResult, prdFile, fsVars>>

\* claude.stderr.on('data'): the next chunk of stderr is appended
ChildStderr ==
  /\ child.state = "running"
  /\ child.err # <<>>
  /\ \E n \in 1..Len(child.err) :
       /\ output' = output \o SubSeq(child.err, 1, n)
       /\ child' = [child EXCEPT !.err = SubSeq(child.err, n + 1, Len(child.err))]
  /\ UNCHANGED <<optVars, runVars, fnVars, pc, i, chk, live, invocations, events, settled, exitCode, result,
                 processExit, genResult, prdFile, fsVars>>

\* ------------------------------------------------------- runAgentLoop
ExitStatus_AlwaysZero(r) == 0

\* claude-all.js: process.exit(completed ? 0 : 1) after the loop, and
\* process.exit(1) in main().catch when the loop throws
ExitStatus(r) == IF r = "true" THEN 0 ELSE 1

\* the awaited call ends with r: the library hands r to its caller and
\* claude-all.js ends the process
Returns(r) ==
  /\ result' = r
  /\ processExit' = IF variant = "cli" THEN ExitStatus(r) ELSE processExit

\* the text holds the completion-marker literal
ContainsSignal(text) ==
  \E k \in 1..Len(text) :
    /\ k + Len(COMPLETION_SIGNAL) - 1 <= Len(text)
    /\ \A j \in 1..Len(COMPLETION_SIGNAL) : text[k + j - 1] = COMPLETION_SIGNAL[j]

PromptReadable_Always == TRUE

\* fs.readFileSync(config.PROMPT_FILE, 'utf-8') returns
PromptReadable == promptExists

LoopTest_Short(k) == k < maxIterations

\* the test of the for loop
LoopTest(k) == k <= maxIterations

IterationCallback_ZeroBased(k) ==
  IF onIteration THEN << <<"onIteration", k - 1, maxIterations>> >> ELSE <<>>

\* if (onIteration) onIteration(i, maxIterations)
IterationCallback(k) ==
  IF onIteration THEN << <<"onIteration", k, maxIterations>> >> ELSE <<>>

Completed_Never(res) == FALSE

Completed_CodeGated(res) == Includes(res.output, COMPLETION_SIGNAL) /\ res.code = 0

\* const { output } = await runClaude(...); output.includes(COMPLETION_SIGNAL)
Completed(res) == Includes(res.output, COMPLETION_SIGNAL)

\* the pause between iterations: lib pauses when !silent && i < max,
\* claude-all.js pauses after every iteration
PauseAfter(k) ==
  IF variant = "cli" THEN TRUE ELSE (~silent) /\ k < maxIterations

\* one pass of the for loop from its test up to the await of runClaude, or
\* the code after the loop when the test fails.  lv is the number of pending
\* calls, ch the child and cd the exit code in hand when the pass begins.
IterationBody(k, lv, ch, cd) ==
  /\ i' = k
  /\ IF LoopTest(k)
     THEN /\ \E t \in ChildTexts : child' = SpawnChild(t)
          /\ events' = events \o IterationCallback(k) \o << <<"spawn", k, 0>> >>
          /\ live' = lv + 1
          /\ exitCode' = NoCode
          /\ invocations' = invocations + 1
          /\ pc' = "loop_await"
          /\ UNCHANGED <<result, processExit>>
     ELSE /\ child' = ch
          /\ live' = lv
          /\ exitCode' = cd
          /\ pc' = "done"
          /\ Returns("false")
          /\ UNCHANGED <<events, invocations>>

\* runAgentLoop is called: the prompt template is read, then the loop begins
RunAgentLoop ==
  /\ pc = "loop_call"
  /\ IF PromptReadable
     THEN IterationBody(1, live, child, exitCode)
     ELSE /\ pc' = "done"
          /\ Returns("error")
          /\ UNCHANGED <<i, child, live, exitCode, invocations, events>>
  /\ UNCHANGED <<optVars, runVars, fnVars, chk, output, settled, genResult, prdFile, fsVars>>

\* the await in runAgentLoop resumes with { output, code }
LoopResumes(code) ==
  LET closed == [child EXCEPT !.state = "closed"]
      res == [output |-> output, code |-> code]
  IN /\ settled' = Append(settled, ContainsSignal(output))
     /\ output' = <<>>
     /\ IF Completed(res)
        THEN /\ events' = events \o (IF onComplete THEN << <<"onComplete", i, 0>> >>
                                                    ELSE <<>>)
             /\ Returns("true")
             /\ pc' = "done"
             /\ child' = closed
             /\ live' = live - 1
             /\ exitCode' = code
             /\ UNCHANGED <<i, invocations>>
        ELSE IF PauseAfter(i)
        THEN /\ pc' = "loop_pause"
             /\ child' = closed
             /\ live' = live - 1
             /\ exitCode' = code
             /\ UNCHANGED <<i, invocations, events, result, processExit>>
        ELSE IterationBody(i + 1, live - 1, closed, code)
     /\ UNCHANGED <<chk, genResult>>

\* the 2000 ms timer of the pause fires
PauseTimer ==
  /\ pc = "loop_pause"
  /\ IterationBody(i + 1, live, child, exitCode)
  /\ UNCHANGED <<optVars, runVars, fnVars, chk, output, settled, genResult, prdFile, fsVars>>

\* ----------------------------------------------------- generatePrdJson
CheckFile_NoRetry(k) ==
  /\ chk' = k
  /\ IF hasPrdJson(prdFile)
     THEN /\ genResult' = "true"
          /\ pc' = IF variant = "cli" THEN "main_archive" ELSE "loop_call"
          /\ UNCHANGED <<result, processExit>>
     ELSE /\ genResult' = "false"
          /\ IF variant = "cli"
             THEN /\ pc' = "done"
                  /\ result' = "error"
                  /\ processExit' = 1
             ELSE /\ pc' = "loop_call"
                  /\ UNCHANGED <<result, processExit>>

\* attempt k of checkFile and, when checkFile returns, the caller's next
\* step: claude-all.js exits on failure, the library caller goes on
CheckFile(k) ==
  /\ chk' = k
  /\ IF hasPrdJson(prdFile)
     THEN /\ genResult' = "true"
          /\ pc' = IF variant = "cli" THEN "main_archive" ELSE "loop_call"
          /\ UNCHANGED <<result, processExit>>
     ELSE IF k < retries - 1
     THEN /\ pc' = "gen_delay"
          /\ UNCHANGED <<genResult, result, processExit>>
     ELSE /\ genResult' = "false"
          /\ IF variant = "cli"
             THEN /\ pc' = "done"
                  /\ result' = "error"
                  /\ processExit' = 1
             ELSE /\ pc' = "loop_call"
                  /\ UNCHANGED <<result, processExit>>

GeneratePrdJson_NoAwait ==
  /\ pc = "gen_call"
  /\ \E t \in ChildTexts : child' = SpawnChild(t)
  /\ events' = Append(events, <<"spawn", 0, 0>>)
  /\ output' = <<>>
  /\ live' = live + 1
  /\ CheckFile(0)
  /\ exitCode' = NoCode
  /\ UNCHANGED <<optVars, runVars, fnVars, i, invocations, settled, prdFile, fsVars>>

\* generatePrdJson up to its await: the conversion prompt goes to a new
\* child; ev is the event log when the call is made
StartGeneration(ev) ==
  /\ \E t \in ChildTexts : child' = SpawnChild(t)
  /\ events' = Append(ev, <<"spawn", 0, 0>>)
  /\ output' = <<>>
  /\ live' = live + 1
  /\ pc' = "gen_await"
  /\ exitCode' = NoCode

\* generatePrdJson is called by a user of the library
GeneratePrdJson ==
  /\ pc = "gen_call"
  /\ StartGeneration(events)
  /\ UNCHANGED <<optVars, runVars, fnVars, i, chk, invocations, settled, result, processExit, genResult,
                 prdFile, fsVars>>

\* the await in generatePrdJson resumes
GenResumes(code) ==
  /\ CheckFile(0)
  /\ child' = [child EXCEPT !.state = "closed"]
  /\ live' = live - 1
  /\ exitCode' = code
  /\ output' = <<>>
  /\ UNCHANGED <<i, invocations, events, settled>>

\* the 500 ms timer of checkFile fires
GenDelayTimer ==
  /\ pc = "gen_delay"
  /\ CheckFile(chk + 1)
  /\ UNCHANGED <<optVars, runVars, fnVars, i, child, output, live, invocations, events, settled, exitCode,
                 prdFile, fsVars>>

\* claude.on('close'): the promise resolves and the awaiting code resumes
ChildClose ==
  /\ child.state = "running"
  /\ child.out = <<>>
  /\ child.err = <<>>
  /\ \E code \in ExitCodes :
       IF pc = "loop_await" THEN LoopResumes(code) ELSE GenResumes(code)
  /\ UNCHANGED <<optVars, runVars, fnVars, prdFile, fsVars>>

ChildError_Swallowed ==
  /\ child.state = "running"
  /\ output = <<>>
  /\ IF pc = "loop_await"
     THEN IterationBody(i + 1, live - 1, [child EXCEPT !.state = "errored"], exitCode)
     ELSE /\ child' = [child EXCEPT !.state = "errored"]
          /\ live' = live - 1
          /\ pc' = "done"
          /\ Returns("error")
          /\ UNCHANGED <<i, exitCode, invocations, events>>
  /\ UNCHANGED <<optVars, runVars, fnVars, chk, output, settled, genResult, prdFile, fsVars>>

\* claude.on('error'): the child could not be spawned; the promise rejects
\* and the awaiting function throws
ChildError ==
  /\ child.state = "running"
  /\ output = <<>>
  /\ child' = [child EXCEPT !.state = "errored"]
  /\ live' = live - 1
  /\ pc' = "done"
  /\ Returns("error")
  /\ UNCHANGED <<optVars, runVars, fnVars, i, chk, output, invocations, events, settled, exitCode,
                 genResult, prdFile, fsVars>>

\* ------------------------------------------------------------ the agent
DefaultBranch == <<"ralph/", "a">>

GeneratedPrds == {CorruptPrd} \cup {ObjectPrd(DefaultBranch, s) : s \in StoryLists}

\* the agent (or a write of it that lands late) stores a task list
AgentWritesPrd ==
  /\ \/ pc = "gen_await" /\ child.state = "running"
     \/ pc = "gen_delay"
  /\ prdFile' \in GeneratedPrds \ {prdFile}
  /\ UNCHANGED <<optVars, runVars, fnVars, loopVars, fsVars>>

\* the agent marks a story as passing
AgentMarksStory ==
  /\ pc = "loop_await"
  /\ child.state = "running"
  /\ prdFile.kind = "object"
  /\ \E k \in 1..Len(prdFile.passes) :
       /\ prdFile.passes[k] # "true"
       /\ prdFile' = [prdFile EXCEPT !.passes[k] = "true"]
  /\ UNCHANGED <<optVars, runVars, fnVars, loopVars, fsVars>>

\* ====================================================== the agent loop
IsOnComplete(e) == e[1] = "onComplete"
IsLoopEvent(e) == e[1] = "onIteration" \/ (e[1] = "spawn" /\ e[2] >= 1)
Last(seq) == seq[Len(seq)]
MarkedResults == {k \in 1..Len(settled) : settled[k]}

\* C1: when the collected output of iteration k is the first to contain the
\* completion marker, the loop has made exactly k invocations, returns true,
\* has called the on-complete callback exactly once with k, and nothing is
\* invoked afterwards (the state with a marked result is final).
C1_SuccessAtMarker ==
  MarkedResults # {} =>
    /\ MarkedResults = {Len(settled)}
    /\ result = "true"
    /\ pc = "done"
    /\ live = 0
    /\ invocations = Len(settled)
    /\ i = invocations
    /\ 1 <= i /\ i <= maxIterations
    /\ Last(events) = IF onComplete THEN <<"onComplete", i, 0>> ELSE <<"spawn", i, 0>>
    /\ Len(SelectSeq(events, IsOnComplete)) = IF onComplete THEN 1 ELSE 0

C1_Witness ==
  /\ result = "true"
  /\ onComplete
  /\ invocations = 2
  /\ maxIterations = 3
  /\ SelectSeq(events, IsOnComplete) = << <<"onComplete", 2, 0>> >>

\* C2: the loop never makes more than max invocations; when it returns
\* false it has made exactly max invocations, none of whose outputs held
\* the marker, and the on-complete callback was never called; and a loop
\* that has settled max unmarked invocations and ended has returned false.
C2_Exhaustion ==
  /\ invocations <= maxIterations
  /\ result = "false" =>
       /\ invocations = maxIterations
       /\ Len(settled) = maxIterations
       /\ MarkedResults = {}
       /\ SelectSeq(events, IsOnComplete) = <<>>
       /\ live = 0
  /\ (maxIterations >= 1 /\ Len(settled) = maxIterations /\ MarkedResults = {}
        /\ pc = "done") => result = "false"

C2_Witness ==
  /\ result = "false"
  /\ maxIterations = 3
  /\ invocations = 3
  /\ onComplete

\* C3: once every story of the task list has passes = true, the driver
\* starts no further iteration.
C3_StopsWhenAllPass ==
  [][(AllStoriesPass(prdFile) /\ invocations >= 1) => invocations' = invocations]_vars

\* C4: a spawn error during iteration i ends the loop with that error: the
\* failed call was the last one made (no retry, no iteration i+1), the loop
\* did not return false and the on-complete callback was not called.
C4_SpawnErrorIsFatal ==
  (child.state = "errored" /\ i >= 1) =>
    /\ pc = "done"
    /\ result = "error"
    /\ invocations = i
    /\ Last(events) = <<"spawn", i, 0>>
    /\ Len(settled) = i - 1
    /\ SelectSeq(events, IsOnComplete) = <<>>
    /\ live = 0

C4_Witness ==
  /\ child.state = "errored"
  /\ i = 2
  /\ maxIterations = 3
  /\ result = "error"

\* C5: with the prompt template missing, runAgentLoop fails before any
\* subprocess invocation and before any per-iteration callback: no loop
\* event ever happens, and the call ends with an error.
C5_MissingPromptIsFatal ==
  ~promptExists =>
    /\ invocations = 0
    /\ i = 0
    /\ SelectSeq(events, IsLoopEvent) = <<>>
    /\ pc \notin {"loop_await", "loop_pause"}
    /\ result \in {"none", "error"}
    /\ (pc = "done") => result = "error"

C5_Witness ==
  /\ ~promptExists
  /\ onIteration
  /\ maxIterations >= 1
  /\ pc = "done"
  /\ result = "error"
  /\ genResult = "true"
  /\ child.state = "closed"

\* C6: at most one subprocess call is outstanding at any moment, it is the
\* call of the current child, and a loop iteration is awaited with exactly
\* one call outstanding (the generation call has settled before).
C6_OneOutstandingCall ==
  /\ live <= 1
  /\ live = 1 <=> child.state = "running"
  /\ pc \in {"loop_await", "gen_await"} => live = 1
  /\ pc \in {"loop_call", "loop_pause", "gen_delay", "gen_call", "done"} => live = 0

C6_Witness ==
  /\ genResult = "true"
  /\ invocations = 2
  /\ pc = "loop_await"
  /\ live = 1

\* the calls runAgentLoop makes up to its n-th invocation
ExpectedLoopEvents(n) ==
  IF onIteration
  THEN [k \in 1..(2 * n) |->
          IF k % 2 = 1 THEN <<"onIteration", (k + 1) \div 2, maxIterations>>
                       ELSE <<"spawn", k \div 2, 0>>]
  ELSE [k \in 1..n |-> <<"spawn", k, 0>>]

IsLoopSpawn(e) == e[1] = "spawn" /\ e[2] >= 1

\* C7: the per-iteration callback, when supplied, is called exactly once per
\* iteration, right before that iteration's spawn, with (i, max) for
\* i = 1, 2, ...; supplied or not, the spawns are those of iterations
\* 1..invocations and a loop that returned made the number of invocations
\* that the results alone dictate.
C7_IterationCallback ==
  /\ SelectSeq(events, IsLoopEvent) = ExpectedLoopEvents(invocations)
  /\ SelectSeq(events, IsLoopSpawn) = [k \in 1..invocations |-> <<"spawn", k, 0>>]
  /\ result = "true" => invocations = Len(settled) /\ MarkedResults = {invocations}
  /\ result = "false" => invocations = maxIterations /\ MarkedResults = {}

C7_Witness ==
  /\ onIteration
  /\ invocations = 3
  /\ SelectSeq(events, IsLoopEvent)[5] = <<"onIteration", 3, 3>>
  /\ result = "false"

\* C8: the exit codes play no part: whatever the codes, the loop has stopped
\* with true exactly when the last settled output held the marker, it went
\* past every earlier (unmarked) output, and after an unmarked output with
\* iterations left it goes on to the next one.
C8_ExitCodeIgnored ==
  LET n == Len(settled) IN
    /\ result = "true" <=> (n > 0 /\ settled[n])
    /\ \A k \in 1..(n - 1) : ~settled[k]
    /\ (n > 0 /\ ~settled[n] /\ n < maxIterations) =>
         \/ pc = "loop_pause" /\ invocations = n
         \/ pc \in {"loop_await", "done"} /\ invocations = n + 1

C8_Witness ==
  /\ settled = <<FALSE, TRUE>>
  /\ exitCode = 1
  /\ result = "true"

\* ======================================================= file operations
\* `# Ralph Progress Log\nStarted: ${new Date().toISOString()}\n---\n`
FreshHeader(date) == [exists |-> TRUE, started |-> date, notes |-> 0]

Trim_Identity(s) == s

\* String.prototype.trim
Trim(s) ==
  LET solid == {k \in 1..Len(s) : s[k] # " "}
  IN IF solid = {} THEN <<>>
     ELSE SubSeq(s, CHOOSE k \in solid : \A j \in solid : k <= j,
                    CHOOSE k \in solid : \A j \in solid : k >= j)

StripPrefix_Identity(s) == s

\* lastBranch.replace(/^ralph\//, '')
StripPrefix(s) == IF Len(s) > 0 /\ s[1] = "ralph/" THEN Tail(s) ELSE s

\* path.join(config.ARCHIVE_DIR, `${date}-${folderName}`)
ArchiveFolder(date, lastBranch) == <<date, StripPrefix(lastBranch)>>

\* prd.branchName || '' ; JSON values without a branchName give ''
CurrentBranch(f) == IF f.kind = "object" THEN f.branchName ELSE <<>>

\* JSON.parse(...) followed by prd.branchName throws: the text is no JSON,
\* or it is the JSON value null
BranchReadThrows(f) == f.kind \in {"corrupt", "null"}

ArchiveFaults == {"none", "read", "mkdir", "copyPrd", "copyProgress", "write"}

Caught_ParseOnly(fault) == fault \in {"none", "parse"}

\* try { ... } catch (err) { }: the try block spans every call of
\* archivePreviousRun and trackCurrentBranch that can throw
Caught(fault) == TRUE

AfterCopy_Moved(f) == NoPrd

\* the source file after fs.copyFileSync(PRD_FILE, ...)
AfterCopy(f) == f

\* the folder after fs.mkdirSync(archiveFolder, { recursive: true })
WithFolder(a, f) ==
  IF f \in DOMAIN a THEN a ELSE (f :> [prd |-> NoPrd, progress |-> NoProgress]) @@ a

CopiedLog_Exclusive(dest, src) == IF dest.exists THEN dest ELSE src

\* the destination after fs.copyFileSync(PROGRESS_FILE, dest): copyFileSync
\* replaces a file that is already there
CopiedLog(dest, src) == src

ResetsLog_BeforeCopies(fault, logExists) == fault # "write"

\* fs.writeFileSync(PROGRESS_FILE, header) is the last statement of the
\* block: it runs when mkdirSync and both copies returned (the copy of the
\* log is skipped when there is no log) and takes effect unless it throws
ResetsLog(fault, logExists) ==
  fault = "none" \/ (fault = "copyProgress" /\ ~logExists)

\* the body of archivePreviousRun; fault names the fs call that throws, if
\* any.  Every throw inside the try block is caught and dropped.
ArchiveEffect ==
  /\ ops' = ops + 1
  /\ \E fault \in ArchiveFaults :
       LET currentBranch == CurrentBranch(prdFile)
           lastBranch == Trim(lastBranchFile.text)
           folder == ArchiveFolder(today, lastBranch)
           made == WithFolder(archive, folder)
           withPrd == [made EXCEPT ![folder].prd = prdFile]
           withLog == IF progressFile.exists
                      THEN [withPrd EXCEPT ![folder].progress = CopiedLog(@, progressFile)]
                      ELSE withPrd
       IN IF ~PrdExists(prdFile) \/ ~lastBranchFile.exists
          THEN /\ lastCall' = [op |-> "archivePreviousRun", fault |-> "none"]
               /\ UNCHANGED <<archive, progressFile, prdFile>>
          ELSE IF BranchReadThrows(prdFile) \/ fault = "read"
          THEN /\ lastCall' = [op |-> "archivePreviousRun",
                             fault |-> IF BranchReadThrows(prdFile) THEN "parse" ELSE "read"]
               /\ UNCHANGED <<archive, progressFile, prdFile>>
          ELSE IF currentBranch # <<>> /\ lastBranch # <<>> /\ currentBranch # lastBranch
          THEN /\ lastCall' = [op |-> "archivePreviousRun",
                             fault |-> IF fault = "copyProgress" /\ ~progressFile.exists
                                       THEN "none" ELSE fault]
               /\ archive' = CASE fault = "mkdir" -> archive
                               [] fault = "copyPrd" -> made
                               [] fault = "copyProgress" /\ progressFile.exists -> withPrd
                               [] OTHER -> withLog
               /\ prdFile' = IF fault \in {"mkdir", "copyPrd"}
                             THEN prdFile ELSE AfterCopy(prdFile)
               /\ progressFile' = IF ResetsLog(fault, progressFile.exists)
                                  THEN FreshHeader(today)
                                  ELSE progressFile
          ELSE /\ lastCall' = [op |-> "archivePreviousRun", fault |-> "none"]
               /\ UNCHANGED <<archive, progressFile, prdFile>>
  /\ UNCHANGED <<lastBranchFile, today, status>>

\* archivePreviousRun(config), called on its own
ArchivePreviousRun ==
  /\ pc = "setup"
  /\ ops < MaxOps
  /\ ArchiveEffect
  /\ UNCHANGED <<optVars, runVars, fnVars, loopVars>>

TrackFaults == {"none", "write"}

TrackedText_Stripped(f) == StripPrefix(f.branchName)

\* what fs.writeFileSync(LAST_BRANCH_FILE, prd.branchName) stores
TrackedText(f) == f.branchName

TracksBranch_AnyObject(f) == f.kind = "object"

\* the path to writeFileSync: the file exists, JSON.parse and the property
\* read do not throw, and `if (prd.branchName)` is truthy
TracksBranch(f) ==
  PrdExists(f) /\ ~BranchReadThrows(f) /\ CurrentBranch(f) # <<>>

\* the body of trackCurrentBranch; a throwing writeFileSync is caught and
\* dropped
TrackEffect ==
  /\ ops' = ops + 1
  /\ IF TracksBranch(prdFile)
     THEN \E fault \in TrackFaults :
            /\ lastCall' = [op |-> "trackCurrentBranch", fault |-> fault]
            /\ lastBranchFile' = IF fault = "none"
                                 THEN [exists |-> TRUE, text |-> TrackedText(prdFile)]
                                 ELSE lastBranchFile
     ELSE /\ lastCall' = [op |-> "trackCurrentBranch",
                          fault |-> IF PrdExists(prdFile) /\ BranchReadThrows(prdFile)
                                    THEN "parse" ELSE "none"]
          /\ UNCHANGED lastBranchFile
  /\ UNCHANGED <<prdFile, progressFile, archive, today, status>>

\* trackCurrentBranch(config), called on its own
TrackCurrentBranch ==
  /\ pc = "setup"
  /\ ops < MaxOps
  /\ TrackEffect
  /\ UNCHANGED <<optVars, runVars, fnVars, loopVars>>

InitProgressEffect_Rewrites ==
  /\ ops' = ops + 1
  /\ lastCall' = [op |-> "initProgressFile", fault |-> "none"]
  /\ progressFile' = FreshHeader(today)
  /\ UNCHANGED <<prdFile, lastBranchFile, archive, today, status>>

\* the body of initProgressFile
InitProgressEffect ==
  /\ ops' = ops + 1
  /\ lastCall' = [op |-> "initProgressFile", fault |-> "none"]
  /\ IF ~progressFile.exists
     THEN progressFile' = FreshHeader(today)
     ELSE UNCHANGED progressFile
  /\ UNCHANGED <<prdFile, lastBranchFile, archive, today, status>>

\* initProgressFile(config.PROGRESS_FILE), called on its own
InitProgressFile ==
  /\ pc = "setup"
  /\ ops < MaxOps
  /\ InitProgressEffect
  /\ UNCHANGED <<optVars, runVars, fnVars, loopVars>>

\* -------------------------------------------------- hasIncompleteStories
MissingStatus_Exists ==
  [exists |-> TRUE, incomplete |-> FALSE, total |-> 0, remaining |-> 0,
   completed |-> 0, projectName |-> <<>>]

\* the record returned when hasPrdJson fails; projectName <<>> is null
MissingStatus ==
  [exists |-> FALSE, incomplete |-> FALSE, total |-> 0, remaining |-> 0,
   completed |-> 0, projectName |-> <<>>]

\* the record returned by the catch block
CaughtStatus ==
  [exists |-> FALSE, incomplete |-> FALSE, total |-> 0, remaining |-> 0,
   completed |-> 0, projectName |-> <<>>]

\* prd.userStories || []
Stories(f) == IF f.kind = "object" THEN f.passes ELSE <<>>

\* what an element of userStories is to the status reader: an object whose
\* passes is true, false, missing ("undefined") or a number ("number"), or
\* the JSON value null ("null")
StoryValues == PassesValues \cup {"undefined", "number", "null"}

\* stories.filter(s => s.passes === false)
IncompleteStories(f) == SelectSeq(Stories(f), LAMBDA v : v = "false")

\* s.passes of the filter callback throws a TypeError: the element is null
FilterThrows(f) == \E k \in 1..Len(Stories(f)) : Stories(f)[k] = "null"

\* hasIncompleteStories(prdFile).  The task lists of the model carry no
\* project field, so projectName is branchName || 'Unknown'.
HasIncompleteStories(f) ==
  IF ~hasPrdJson(f) THEN MissingStatus
  ELSE IF BranchReadThrows(f) \/ FilterThrows(f) THEN CaughtStatus
  ELSE [exists |-> TRUE,
        incomplete |-> Len(IncompleteStories(f)) > 0,
        total |-> Len(Stories(f)),
        remaining |-> Len(IncompleteStories(f)),
        completed |-> Len(Stories(f)) - Len(IncompleteStories(f)),
        projectName |-> IF CurrentBranch(f) # <<>> THEN CurrentBranch(f) ELSE <<"Unknown">>]

\* hasIncompleteStories(config.PRD_FILE), called on its own
StatusCall ==
  /\ pc = "setup"
  /\ fn \in {"none", "hasIncompleteStories"}
  /\ ops < MaxOps
  /\ ops' = ops + 1
  /\ lastCall' = [op |-> "hasIncompleteStories", fault |-> "none"]
  /\ status' = HasIncompleteStories(prdFile)
  /\ UNCHANGED <<optVars, runVars, fnVars, loopVars, prdFile, lastBranchFile, progressFile, archive, today>>

\* ------------------------------------------ lib/prd-utils.js: JSON values
\* A decoded JSON value as far as the checks look at it: its type, the text
\* of a string, the value of a number (1 and 0 for true and false).
JsValue(t, x, n) == [type |-> t, text |-> x, num |-> n]

Undefined == JsValue("undefined", <<>>, 0)
Null == JsValue("null", <<>>, 0)
Str(x) == JsValue("string", x, 0)
Num(n) == JsValue("number", <<>>, n)
Bool(b) == JsValue("boolean", <<>>, IF b THEN 1 ELSE 0)
Arr == JsValue("array", <<>>, 0)
Obj == JsValue("object", <<>>, 0)

\* !v
Falsy(v) ==
  CASE v.type \in {"undefined", "null"} -> TRUE
    [] v.type = "string" -> v.text = <<>>
    [] v.type \in {"number", "boolean"} -> v.num = 0
    [] OTHER -> FALSE

\* typeof v
TypeOf(v) == IF v.type \in {"null", "array", "object"} THEN "object" ELSE v.type

\* Array.isArray(v)
IsArray(v) == v.type = "array"

\* An element of userStories: a story object with its seven fields, or the
\* JSON value null.
Story(id, title, description, acceptanceCriteria, priority, passes, notes) ==
  [isNull |-> FALSE, id |-> id, title |-> title, description |-> description,
   acceptanceCriteria |-> acceptanceCriteria, priority |-> priority,
   passes |-> passes, notes |-> notes]

NullStory ==
  [isNull |-> TRUE, id |-> Undefined, title |-> Undefined, description |-> Undefined,
   acceptanceCriteria |-> Undefined, priority |-> Undefined, passes |-> Undefined,
   notes |-> Undefined]

\* The value handed to validatePrdJson: an object with its four fields
\* (stories holds the elements of userStories when that is an array), or a
\* JSON value that is no object.
Prd(project, branchName, description, userStories, stories) ==
  [type |-> "object", project |-> project, branchName |-> branchName,
   description |-> description, userStories |-> userStories, stories |-> stories]

\* null, a number, a string, a boolean or an array: reading a property of
\* any of them but null gives undefined
NonObject(t) ==
  [type |-> t, project |-> Undefined, branchName |-> Undefined,
   description |-> Undefined, userStories |-> Undefined, stories |-> <<>>]

\* ------------------------------------ lib/prd-utils.js: validatePrdJson
\* The messages, by what they say: kind "field" is 'Missing or invalid
\* "<field>" ...', "prefix" the branch-prefix message, "story" a message
\* prefixed with userStories[<index>], "priorities" and "ids" the two
\* sequencing messages; text is the expected id an "ids" message names.
FieldError(field) == [kind |-> "field", index |-> -1, field |-> field, text |-> <<>>]
PrefixError == [kind |-> "prefix", index |-> -1, field |-> "branchName", text |-> <<>>]
StoryError(index, field) == [kind |-> "story", index |-> index, field |-> field, text |-> <<>>]
PriorityError == [kind |-> "priorities", index |-> -1, field |-> "priority", text |-> <<>>]
IdError(index, expected) == [kind |-> "ids", index |-> index, field |-> "id", text |-> expected]

\* !v || typeof v !== 'string'
MissingField(v) == Falsy(v) \/ TypeOf(v) # "string"

\* branchName.startsWith('ralph/')
StartsWithRalph(text) == Len(text) > 0 /\ text[1] = "ralph/"

TopLevelErrors_FailFast(prd) ==
  IF MissingField(prd.project) THEN <<FieldError("project")>>
  ELSE IF MissingField(prd.branchName) THEN <<FieldError("branchName")>>
  ELSE IF ~StartsWithRalph(prd.branchName.text) THEN <<PrefixError>>
  ELSE IF MissingField(prd.description) THEN <<FieldError("description")>>
  ELSE IF ~IsArray(prd.userStories) THEN <<FieldError("userStories")>>
  ELSE <<>>

\* the checks of project, branchName, description and userStories
TopLevelErrors(prd) ==
  (IF MissingField(prd.project) THEN <<FieldError("project")>> ELSE <<>>)
  \o (IF MissingField(prd.branchName) THEN <<FieldError("branchName")>>
      ELSE IF ~StartsWithRalph(prd.branchName.text) THEN <<PrefixError>>
      ELSE <<>>)
  \o (IF MissingField(prd.description) THEN <<FieldError("description")>> ELSE <<>>)
  \o (IF ~IsArray(prd.userStories) THEN <<FieldError("userStories")>> ELSE <<>>)

\* the fields of a story, in the order they are checked
StoryFields ==
  <<"id", "title", "description", "acceptanceCriteria", "priority", "passes", "notes">>

\* the condition under which the check of a story field pushes its message
FieldFails(story, field) ==
  CASE field \in {"id", "title", "description"} -> MissingField(story[field])
    [] field = "acceptanceCriteria" -> ~IsArray(story.acceptanceCriteria)
    [] field = "priority" -> TypeOf(story.priority) # "number"
    [] field = "passes" -> TypeOf(story.passes) # "boolean"
    [] field = "notes" -> TypeOf(story.notes) # "string"

StoryErrors_FirstOnly(story, index) ==
  LET bad == SelectSeq(StoryFields, LAMBDA f : FieldFails(story, f))
  IN IF bad = <<>> THEN <<>> ELSE <<StoryError(index, bad[1])>>

\* the body of prd.userStories.forEach((story, index) => ...)
StoryErrors(story, index) ==
  LET bad == SelectSeq(StoryFields, LAMBDA f : FieldFails(story, f))
  IN [k \in 1..Len(bad) |-> StoryError(index, bad[k])]

\* prd.userStories.forEach, from the story at position k (1-based) on
RECURSIVE ForEachStory(_, _)
ForEachStory(stories, k) ==
  IF k > Len(stories) THEN <<>>
  ELSE StoryErrors(stories[k], k - 1) \o ForEachStory(stories, k + 1)

\* prd.userStories.map(s => s.priority)
Priorities(stories) == [k \in 1..Len(stories) |-> stories[k].priority]

RECURSIVE Insert(_, _)
Insert(sorted, n) ==
  IF sorted = <<>> THEN <<n>>
  ELSE IF n < Head(sorted) THEN <<n>> \o sorted
  ELSE <<Head(sorted)>> \o Insert(Tail(sorted), n)

SortNumbers_ListOrder(s) == s

\* .sort((a, b) => a - b) of numbers
RECURSIVE SortNumbers(_)
SortNumbers(s) ==
  IF s = <<>> THEN <<>>
  ELSE Insert(SortNumbers(SubSeq(s, 1, Len(s) - 1)), s[Len(s)])

\* The priority loop: one message at the first priorities[i] !== i + 1.  A
\* priority that is no number differs from every i + 1 wherever the sort
\* leaves it, so the message is pushed whenever there is one.
PriorityErrors(stories) ==
  LET ps == Priorities(stories)
  IN IF \E k \in 1..Len(ps) : ps[k].type # "number" THEN <<PriorityError>>
     ELSE LET sorted == SortNumbers([k \in 1..Len(ps) |-> ps[k].num])
          IN IF \E k \in 1..Len(sorted) : sorted[k] # k THEN <<PriorityError>> ELSE <<>>

DigitChars == <<"0", "1", "2", "3", "4", "5", "6", "7", "8", "9">>

\* String(n)
RECURSIVE Digits(_)
Digits(n) ==
  IF n < 10 THEN <<DigitChars[n + 1]>>
  ELSE Digits(n \div 10) \o <<DigitChars[(n % 10) + 1]>>

\* .padStart(width, '0')
RECURSIVE PadStart(_, _)
PadStart(text, width) ==
  IF Len(text) >= width THEN text ELSE PadStart(<<"0">> \o text, width)

\* `US-${String(i + 1).padStart(3, '0')}`, n = i + 1
ExpectedId(n) == <<"US-">> \o PadStart(Digits(n), 3)

\* The id loop: one message at the first ids[i] !== expectedId, naming the
\* expected id (and the id found, which the message records leave out).
IdErrors(stories) ==
  LET off == {k \in 1..Len(stories) : stories[k].id # Str(ExpectedId(k))}
      first == CHOOSE k \in off : \A m \in off : k <= m
  IN IF off = {} THEN <<>> ELSE <<IdError(first - 1, ExpectedId(first))>>

\* prd.project of null, or story.id of a null story, throws a TypeError,
\* and nothing in validatePrdJson catches it
ValidationThrows(prd) ==
  \/ prd.type = "null"
  \/ /\ IsArray(prd.userStories)
     /\ \E k \in 1..Len(prd.stories) : prd.stories[k].isNull

NoValidation == [threw |-> FALSE, valid |-> FALSE, errors |-> <<>>]
Thrown == [threw |-> TRUE, valid |-> FALSE, errors |-> <<>>]

\* validatePrdJson(prd): { valid, errors }, or a TypeError
ValidatePrdJson(prd) ==
  IF ValidationThrows(prd) THEN Thrown
  ELSE LET errors ==
             TopLevelErrors(prd)
             \o (IF IsArray(prd.userStories)
                 THEN ForEachStory(prd.stories, 1) \o PriorityErrors(prd.stories)
                      \o IdErrors(prd.stories)
                 ELSE <<>>)
       IN [threw |-> FALSE, valid |-> errors = <<>>, errors |-> errors]

\* ------------------------------------------------ validatePrdJson: inputs
\* the id a well-formed list gives its k-th story (k < 10)
StoryId(k) == <<"US-", "0", "0", DigitChars[k + 1]>>

\* a story with every field in order, as the tests build it
GoodStory(k) ==
  Story(Str(StoryId(k)), Str(<<"t">>), Str(<<"d">>), Arr, Num(k), Bool(FALSE), Str(<<>>))

FieldSet == {StoryFields[k] : k \in 1..Len(StoryFields)}

JsValues ==
  {Undefined, Null, Str(<<>>), Str(<<"t">>), Num(0), Num(1), Bool(TRUE), Bool(FALSE),
   Arr, Obj}

\* ids: missing, a number, unpadded, and the padded ids up to one too far
IdValues ==
  {Undefined, Num(1), Str(<<"US-", "1">>)} \cup {Str(StoryId(n)) : n \in 1..(MaxStories + 1)}

\* priorities: missing, a string, and the numbers from 0 up to one too far
PriorityValues == {Undefined, Str(<<"1">>)} \cup {Num(n) : n \in 0..(MaxStories + 1)}

StoriesWithIds ==
  UNION {{[k \in 1..n |-> [GoodStory(k) EXCEPT !.id = ids[k]]] : ids \in [1..n -> IdValues]} :
           n \in 0..MaxStories}

StoriesWithPriorities ==
  UNION {{[k \in 1..n |-> [GoodStory(k) EXCEPT !.priority = ps[k]]] :
            ps \in [1..n -> PriorityValues]} : n \in 0..MaxStories}

\* the subsets of S with at most k elements
RECURSIVE SmallSubsets(_, _)
SmallSubsets(S, k) ==
  IF k = 0 THEN {{}}
  ELSE LET smaller == SmallSubsets(S, k - 1)
       IN smaller \cup {d \cup {x} : d \in smaller, x \in S}

\* the (position, field) pairs a list of n stories may lack
DefectSets(n) == SmallSubsets((1..n) \X FieldSet, MaxDefects)

\* the k-th story without the fields d names for it
Defective(k, d) ==
  [f \in DOMAIN GoodStory(k) |-> IF <<k, f>> \in d THEN Undefined ELSE GoodStory(k)[f]]

StoriesWithDefects ==
  UNION {{[k \in 1..n |-> Defective(k, d)] : d \in DefectSets(n)} : n \in 0..MaxStories}

\* one story, one field of it holding any value
OneFieldStories == {<<[GoodStory(1) EXCEPT ![f] = v]>> : f \in FieldSet, v \in JsValues}

\* lists in which ids and priorities are each in order or one too far
StoriesOutOfSequence ==
  UNION {{[k \in 1..n |-> [GoodStory(k) EXCEPT !.id = Str(StoryId(k + by[k][1])),
                                                !.priority = Num(k + by[k][2])]] :
            by \in [1..n -> {0, 1} \X {0, 1}]} : n \in 0..MaxStories}

StoryInputs ==
  StoriesWithIds \cup StoriesWithPriorities \cup StoriesWithDefects \cup OneFieldStories
    \cup StoriesOutOfSequence

\* userStories missing, a string, an object, or an array of up to two
\* elements: stories in order, stories lacking fields, null
UserStoriesValues ==
  {<<Undefined, <<>>>>, <<Str(<<"t">>), <<>>>>, <<Obj, <<>>>>, <<Arr, <<>>>>,
   <<Arr, <<GoodStory(1)>>>>, <<Arr, <<NullStory>>>>, <<Arr, <<GoodStory(1), NullStory>>>>,
   <<Arr, <<Defective(1, {<<1, "id">>, <<1, "title">>}), Defective(2, {<<2, "notes">>})>>>>}

TopLevelInputs ==
  {Prd(p, b, d, u[1], u[2]) :
     p \in {Undefined, Str(<<>>), Num(1), Str(<<"p">>)},
     b \in {Undefined, Num(1), Str(<<>>), Str(<<"a">>), Str(<<"ralph/", "a">>)},
     d \in {Undefined, Str(<<"d">>)},
     u \in UserStoriesValues}

ValidatorInputs ==
  {NonObject(t) : t \in {"null", "number", "string", "boolean", "array"}}
  \cup TopLevelInputs
  \cup {Prd(Str(<<"p">>), Str(<<"ralph/", "a">>), Str(<<"d">>), Arr, s) : s \in StoryInputs}

\* validatePrdJson(prd)
ValidateCall ==
  /\ fn = "validatePrdJson"
  /\ validation = NoValidation
  /\ validation' = ValidatePrdJson(prdArg)
  /\ UNCHANGED <<optVars, runVars, loopVars, prdFile, fsVars, fn, prdArg, roots, configs, argv, parsed>>

\* ------------------------------------------ lib/config.js: createConfig
\* A directory is the sequence of its path segments below "/"; the roots
\* are absolute and normalised, so path.join has nothing to resolve.
PathTokens == {"a", "output"}
Dirs == Texts(PathTokens, MaxDepth)

\* path.join(dir, ...names)
PathJoin(dir, names) == dir \o names

CreateConfig_PromptInWorkingDir(workingDir, scriptDir) ==
  LET outputDir == PathJoin(workingDir, <<"output">>)
  IN [SCRIPT_DIR |-> scriptDir,
      WORKING_DIR |-> workingDir,
      OUTPUT_DIR |-> outputDir,
      PRD_FILE |-> PathJoin(outputDir, <<"prd.json">>),
      PROGRESS_FILE |-> PathJoin(outputDir, <<"progress.txt">>),
      ARCHIVE_DIR |-> PathJoin(outputDir, <<"archive">>),
      LAST_BRANCH_FILE |-> PathJoin(outputDir, <<".last-branch">>),
      PROMPT_FILE |-> PathJoin(workingDir, <<"lib", "prompt.md">>),
      COMPLETION_SIGNAL |-> COMPLETION_SIGNAL]

CreateConfig_OutputInScriptDir(workingDir, scriptDir) ==
  LET outputDir == PathJoin(scriptDir, <<"output">>)
  IN [SCRIPT_DIR |-> scriptDir,
      WORKING_DIR |-> workingDir,
      OUTPUT_DIR |-> outputDir,
      PRD_FILE |-> PathJoin(outputDir, <<"prd.json">>),
      PROGRESS_FILE |-> PathJoin(outputDir, <<"progress.txt">>),
      ARCHIVE_DIR |-> PathJoin(outputDir, <<"archive">>),
      LAST_BRANCH_FILE |-> PathJoin(outputDir, <<".last-branch">>),
      PROMPT_FILE |-> PathJoin(scriptDir, <<"lib", "prompt.md">>),
      COMPLETION_SIGNAL |-> COMPLETION_SIGNAL]

\* createConfig(workingDir, scriptDir)
CreateConfig(workingDir, scriptDir) ==
  LET outputDir == PathJoin(workingDir, <<"output">>)
  IN [SCRIPT_DIR |-> scriptDir,
      WORKING_DIR |-> workingDir,
      OUTPUT_DIR |-> outputDir,
      PRD_FILE |-> PathJoin(outputDir, <<"prd.json">>),
      PROGRESS_FILE |-> PathJoin(outputDir, <<"progress.txt">>),
      ARCHIVE_DIR |-> PathJoin(outputDir, <<"archive">>),
      LAST_BRANCH_FILE |-> PathJoin(outputDir, <<".last-branch">>),
      PROMPT_FILE |-> PathJoin(scriptDir, <<"lib", "prompt.md">>),
      COMPLETION_SIGNAL |-> COMPLETION_SIGNAL]

\* the roots of two successive calls: the second call repeats the first or
\* changes one of its roots
RootPairs ==
  {<<<<w, s>>, <<w2, s>>>> : w \in Dirs, s \in Dirs, w2 \in Dirs}
  \cup {<<<<w, s>>, <<w, s2>>>> : w \in Dirs, s \in Dirs, s2 \in Dirs}

\* the next createConfig call
CreateConfigCall ==
  /\ fn = "createConfig"
  /\ Len(configs) < Len(roots)
  /\ LET r == roots[Len(configs) + 1]
     IN configs' = Append(configs, CreateConfig(r[1], r[2]))
  /\ UNCHANGED <<optVars, runVars, loopVars, prdFile, fsVars, fn, prdArg, validation, roots, argv,
                 parsed>>

\* -------------------------------------------- lib/prd-utils.js: parseArgs
\* the tokens of a command line: the known flag, an unknown flag, two
\* numbers and a file name
ArgTokens == {"--max-iterations", "--flag", "3", "0", "f.md"}

\* args[i].startsWith('--')
StartsWithDashes(tok) == tok \in {"--max-iterations", "--flag"}

\* what parseInt makes of a token without a leading number
NaN == -1

\* parseInt(tok, 10)
ParseInt(tok) ==
  CASE tok = "3" -> 3
    [] tok = "0" -> 0
    [] OTHER -> NaN

NoParse == [inputFile |-> <<>>, maxIterations |-> 0]

Consumed_FlagsTakeValue(args, k) ==
  IF StartsWithDashes(args[k]) /\ k < Len(args) THEN 2 ELSE 1

\* the tokens one pass of the for loop consumes at position k: the i++ of
\* the first branch and the i++ of the loop
Consumed(args, k) ==
  IF args[k] = "--max-iterations" /\ k < Len(args) THEN 2 ELSE 1

\* the for loop from position k (1-based) on; inputFile <<>> is null
RECURSIVE ParseFrom(_, _, _)
ParseFrom(args, k, acc) ==
  IF k > Len(args) THEN acc
  ELSE IF args[k] = "--max-iterations" /\ k < Len(args)
  THEN ParseFrom(args, k + Consumed(args, k),
                 [acc EXCEPT !.maxIterations = ParseInt(args[k + 1])])
  ELSE IF ~StartsWithDashes(args[k])
  THEN ParseFrom(args, k + Consumed(args, k), [acc EXCEPT !.inputFile = <<args[k]>>])
  ELSE ParseFrom(args, k + Consumed(args, k), acc)

\* parseArgs(args)
ParseArgs(args) == ParseFrom(args, 1, [inputFile |-> <<>>, maxIterations |-> 10])

\* parseArgs(args)
ParseArgsCall ==
  /\ fn = "parseArgs"
  /\ parsed = NoParse
  /\ parsed' = ParseArgs(argv)
  /\ UNCHANGED <<optVars, runVars, loopVars, prdFile, fsVars, fn, prdArg, validation, roots, configs,
                 argv>>

\* no pure function is under call
FnIdle ==
  /\ fn = "none"
  /\ prdArg = NonObject("null")
  /\ validation = NoValidation
  /\ roots = <<>>
  /\ configs = <<>>
  /\ argv = <<>>
  /\ parsed = NoParse

\* ------------------------------------------------ claude-all.js: main
\* what is typed at the prompt: nothing, blanks only, or a description
StdinTexts == {<<>>, <<" ">>, <<"d">>}

\* the description named on the command line, and otherwise what is typed
CliInputs ==
  {<<"none", t>> : t \in StdinTexts} \cup {<<"missing", <<>>>>, <<"present", <<>>>>}

\* input.trim() of promptForInput is the empty string
NoInput(text) == Trim(text) = <<>>

\* main() from parseArgs to its first await, or to process.exit
Main ==
  /\ pc = "main"
  /\ IF hasPrdJson(prdFile)
     THEN /\ pc' = "main_archive"
          /\ UNCHANGED <<child, output, live, exitCode, events, result, processExit>>
     ELSE IF inputFile = "missing"
     THEN /\ events' = Append(events, <<"readPrdFile", 0, 0>>)
          /\ pc' = "done"
          /\ result' = "error"
          /\ processExit' = 1
          /\ UNCHANGED <<child, output, live, exitCode>>
     ELSE IF inputFile = "present"
     THEN /\ StartGeneration(Append(events, <<"readPrdFile", 0, 0>>))
          /\ UNCHANGED <<result, processExit>>
     ELSE /\ events' = Append(events, <<"promptForInput", 0, 0>>)
          /\ pc' = "main_input"
          /\ UNCHANGED <<child, output, live, exitCode, result, processExit>>
  /\ UNCHANGED <<optVars, runVars, fnVars, i, chk, invocations, settled, genResult, prdFile, fsVars>>

\* rl.on('close'): promptForInput resolves and main goes on
MainInput ==
  /\ pc = "main_input"
  /\ IF NoInput(stdin)
     THEN /\ pc' = "done"
          /\ result' = "error"
          /\ processExit' = 1
          /\ UNCHANGED <<child, output, live, exitCode, events>>
     ELSE /\ StartGeneration(events)
          /\ UNCHANGED <<result, processExit>>
  /\ UNCHANGED <<optVars, runVars, fnVars, i, chk, invocations, settled, genResult, prdFile, fsVars>>

\* archivePreviousRun() in main
MainArchive ==
  /\ pc = "main_archive"
  /\ ArchiveEffect
  /\ IF Caught(lastCall'.fault)
     THEN /\ pc' = "main_track"
          /\ UNCHANGED <<result, processExit>>
     ELSE /\ pc' = "done"
          /\ Returns("error")
  /\ UNCHANGED <<optVars, runVars, fnVars, i, chk, child, output, live, invocations, events, settled,
                 exitCode, genResult>>

\* trackCurrentBranch() in main
MainTrack ==
  /\ pc = "main_track"
  /\ TrackEffect
  /\ IF Caught(lastCall'.fault)
     THEN /\ pc' = "main_init"
          /\ UNCHANGED <<result, processExit>>
     ELSE /\ pc' = "done"
          /\ Returns("error")
  /\ UNCHANGED <<optVars, runVars, fnVars, i, chk, child, output, live, invocations, events, settled,
                 exitCode, genResult>>

\* initProgressFile() in main; runAgentLoop is called next
MainInitProgress ==
  /\ pc = "main_init"
  /\ InitProgressEffect
  /\ pc' = "loop_call"
  /\ UNCHANGED <<optVars, runVars, fnVars, i, chk, child, output, live, invocations, events, settled,
                 exitCode, result, processExit, genResult>>

\* ------------------------------------------------- the run: Init, Next
\* a run of the library (generatePrdJson and runAgentLoop called by a
\* user) or of claude-all.js with a description (in a file or typed), in a
\* working root that holds at most a task list
Init ==
  /\ FnIdle
  /\ Alone
  /\ variant \in {"lib", "cli"}
  /\ silent \in BOOLEAN
  /\ onIteration \in BOOLEAN
  /\ onComplete \in BOOLEAN
  /\ variant = "cli" => ~silent /\ ~onIteration /\ ~onComplete
  /\ maxIterations \in 0..MaxIter
  /\ promptExists \in BOOLEAN
  /\ \E inp \in IF variant = "cli" THEN {<<"present", <<>>>>, <<"none", <<"d">>>>}
                                    ELSE {<<"none", <<>>>>} :
       /\ inputFile = inp[1]
       /\ stdin = inp[2]
  /\ prdFile \in {NoPrd} \cup GeneratedPrds
  /\ pc \in IF variant = "cli" THEN {"main"} ELSE {"gen_call", "loop_call"}
  /\ i = 0
  /\ chk = 0
  /\ child = NoChild
  /\ output = <<>>
  /\ live = 0
  /\ invocations = 0
  /\ events = <<>>
  /\ settled = <<>>
  /\ exitCode = NoCode
  /\ result = "none"
  /\ processExit = NoCode
  /\ genResult = "none"
  /\ FsIdle

Next ==
  \/ Main
  \/ MainInput
  \/ MainArchive
  \/ MainTrack
  \/ MainInitProgress
  \/ GeneratePrdJson
  \/ GenDelayTimer
  \/ RunAgentLoop
  \/ PauseTimer
  \/ ChildStdout
  \/ ChildStderr
  \/ ChildClose
  \/ ChildError
  \/ AgentWritesPrd
  \/ AgentMarksStory

Spec == Init /\ [][Next]_vars

\* --------------------------------------------- claude-all.js, any root
\* the task lists a run of claude-all.js may find: none, an unparseable
\* one, JSON without properties, and task lists without a branch name, of
\* the branch the agent generates for, and of another branch
CliPrds ==
  {NoPrd, CorruptPrd, NullPrd, ScalarPrd}
    \cup {ObjectPrd(b, <<"false">>) : b \in {<<>>, DefaultBranch, <<"a">>}}

\* the tracking files it may find: none, the generated branch, another one
CliBranchFiles ==
  {NoFile} \cup {[exists |-> TRUE, text |-> t] : t \in {DefaultBranch, <<"a">>}}

\* a run of claude-all.js with any command line, in any working root
InitCli ==
  /\ FnIdle
  /\ Alone
  /\ variant = "cli"
  /\ silent = FALSE
  /\ onIteration = FALSE
  /\ onComplete = FALSE
  /\ maxIterations \in 0..MaxCliIter
  /\ promptExists \in BOOLEAN
  /\ \E inp \in CliInputs :
       /\ inputFile = inp[1]
       /\ stdin = inp[2]
  /\ pc = "main"
  /\ i = 0
  /\ chk = 0
  /\ child = NoChild
  /\ output = <<>>
  /\ live = 0
  /\ invocations = 0
  /\ events = <<>>
  /\ settled = <<>>
  /\ exitCode = NoCode
  /\ result = "none"
  /\ processExit = NoCode
  /\ genResult = "none"
  /\ prdFile \in CliPrds
  /\ lastBranchFile \in CliBranchFiles
  /\ today = 1
  /\ progressFile \in {NoProgress, [exists |-> TRUE, started |-> 1, notes |-> MaxNotes]}
  /\ archive = <<>>
  /\ lastCall = NoCall
  /\ status = NoStatus
  /\ ops = 0

\* the steps of a run of claude-all.js and of the agent it drives
NextCli ==
  \/ Main
  \/ MainInput
  \/ MainArchive
  \/ MainTrack
  \/ MainInitProgress
  \/ GenDelayTimer
  \/ RunAgentLoop
  \/ PauseTimer
  \/ ChildStdout
  \/ ChildStderr
  \/ ChildClose
  \/ ChildError
  \/ AgentWritesPrd
  \/ AgentMarksStory

SpecCli == InitCli /\ [][NextCli]_vars

\* what the task-list file may hold when a file operation runs: every kind
\* of content and every branch name, with one unfinished story
FsPrds ==
  {NoPrd, CorruptPrd, NullPrd, ScalarPrd} \cup {ObjectPrd(b, <<"false">>) : b \in Strs}

InitFs ==
  /\ FnIdle
  /\ Alone
  /\ variant = "lib"
  /\ silent = FALSE
  /\ onIteration = FALSE
  /\ onComplete = FALSE
  /\ maxIterations = 1
  /\ promptExists = TRUE
  /\ inputFile = "none"
  /\ stdin = <<>>
  /\ pc = "setup"
  /\ i = 0
  /\ chk = 0
  /\ child = NoChild
  /\ output = <<>>
  /\ live = 0
  /\ invocations = 0
  /\ events = <<>>
  /\ settled = <<>>
  /\ exitCode = NoCode
  /\ result = "none"
  /\ processExit = NoCode
  /\ genResult = "none"
  /\ prdFile \in FsPrds
  /\ lastBranchFile \in {NoFile} \cup {[exists |-> TRUE, text |-> t] : t \in Strs}
  /\ today \in 1..MaxDay
  /\ progressFile \in {NoProgress}
                        \cup {[exists |-> TRUE, started |-> d, notes |-> n] :
                                d \in 1..today, n \in 0..MaxNotes}
  /\ archive = <<>>
  /\ lastCall = NoCall
  /\ status = NoStatus
  /\ ops = 0

NextFs ==
  \/ StatusCall
  \/ ArchivePreviousRun
  \/ TrackCurrentBranch
  \/ InitProgressFile

SpecFs == InitFs /\ [][NextFs]_vars

\* the task lists the status reader is handed: parseable objects whose
\* userStories holds up to MaxListed elements
StatusPrds == {ObjectPrd(DefaultBranch, p) : p \in Texts(StoryValues, MaxListed)}

\* One call of a pure function of the library on an input of its domain:
\* the status reader on a task list, the validator on a decoded JSON
\* value, parseArgs on an argument list, and createConfig on the roots of
\* two successive calls.
InitFn ==
  /\ Alone
  /\ variant = "lib"
  /\ silent = FALSE
  /\ onIteration = FALSE
  /\ onComplete = FALSE
  /\ maxIterations = 1
  /\ promptExists = TRUE
  /\ inputFile = "none"
  /\ stdin = <<>>
  /\ pc = "setup"
  /\ i = 0
  /\ chk = 0
  /\ child = NoChild
  /\ output = <<>>
  /\ live = 0
  /\ invocations = 0
  /\ events = <<>>
  /\ settled = <<>>
  /\ exitCode = NoCode
  /\ result = "none"
  /\ processExit = NoCode
  /\ genResult = "none"
  /\ FsIdle
  /\ fn \in {"hasIncompleteStories", "validatePrdJson", "createConfig", "parseArgs"}
  /\ prdFile \in (IF fn = "hasIncompleteStories" THEN StatusPrds ELSE {NoPrd})
  /\ prdArg \in (IF fn = "validatePrdJson" THEN ValidatorInputs ELSE {NonObject("null")})
  /\ validation = NoValidation
  /\ roots \in (IF fn = "createConfig" THEN RootPairs ELSE {<<>>})
  /\ configs = <<>>
  /\ argv \in (IF fn = "parseArgs" THEN Texts(ArgTokens, MaxArgs) ELSE {<<>>})
  /\ parsed = NoParse

NextFn == StatusCall \/ ValidateCall \/ CreateConfigCall \/ ParseArgsCall

SpecFn == InitFn /\ [][NextFn]_vars

\* generatePrdJson called by a user of the library, up to its return.  The
\* timer of checkFile's delay fires once it is set.
InitGen ==
  /\ FnIdle
  /\ Alone
  /\ variant = "lib"
  /\ silent \in BOOLEAN
  /\ onIteration = FALSE
  /\ onComplete = FALSE
  /\ maxIterations = 1
  /\ promptExists = TRUE
  /\ inputFile = "none"
  /\ stdin = <<>>
  /\ prdFile \in {NoPrd} \cup GeneratedPrds
  /\ pc = "gen_call"
  /\ i = 0
  /\ chk = 0
  /\ child = NoChild
  /\ output = <<>>
  /\ live = 0
  /\ invocations = 0
  /\ events = <<>>
  /\ settled = <<>>
  /\ exitCode = NoCode
  /\ result = "none"
  /\ processExit = NoCode
  /\ genResult = "none"
  /\ FsIdle

NextGen ==
  \/ GeneratePrdJson
  \/ GenDelayTimer
  \/ ChildStdout
  \/ ChildStderr
  \/ ChildClose
  \/ ChildError
  \/ AgentWritesPrd

SpecGen == InitGen /\ [][NextGen]_vars /\ WF_vars(GenDelayTimer)

\* ------------------------------- claude-all.js, launched again and again
\* the branch names the task lists of successive runs carry: two branches
\* and a name with a trailing blank
RunBranches == {<<"ralph/", "a">>, <<"a", "a">>, <<"a", " ">>}

\* the loop and the process end and claude-all.js is launched once more on
\* the same day: meanwhile the agent may have appended to the progress log,
\* and the task list is the same or one of another branch.  main finds a
\* task list and goes to archivePreviousRun.
Relaunch ==
  /\ pc = "loop_call"
  /\ Len(runs) < MaxRuns
  /\ \E b \in RunBranches, n \in progressFile.notes..MaxNotes :
       /\ prdFile' = ObjectPrd(b, <<"false">>)
       /\ runs' = Append(runs, b)
       /\ progressFile' = IF progressFile.exists
                          THEN [progressFile EXCEPT !.notes = n]
                          ELSE progressFile
  /\ pc' = "main_archive"
  /\ UNCHANGED <<optVars, fnVars, pc2, i, chk, child, output, live, invocations, events, settled,
                 exitCode, result, processExit, genResult, lastBranchFile, archive, today,
                 lastCall, status, ops>>

\* archivePreviousRun(config) called once more right after trackCurrentBranch
ArchiveAgain ==
  /\ pc = "main_init"
  /\ lastCall.op = "trackCurrentBranch"
  /\ ArchiveEffect
  /\ UNCHANGED <<optVars, runVars, fnVars, loopVars>>

\* the first launch in a fresh working root that holds a task list
InitRuns ==
  /\ FnIdle
  /\ variant = "cli"
  /\ silent = FALSE
  /\ onIteration = FALSE
  /\ onComplete = FALSE
  /\ maxIterations = 1
  /\ promptExists = TRUE
  /\ inputFile = "none"
  /\ stdin = <<>>
  /\ prdFile \in {ObjectPrd(b, <<"false">>) : b \in RunBranches}
  /\ runs = <<prdFile.branchName>>
  /\ pc2 = "none"
  /\ pc = "main_archive"
  /\ i = 0
  /\ chk = 0
  /\ child = NoChild
  /\ output = <<>>
  /\ live = 0
  /\ invocations = 0
  /\ events = <<>>
  /\ settled = <<>>
  /\ exitCode = NoCode
  /\ result = "none"
  /\ processExit = NoCode
  /\ genResult = "none"
  /\ FsIdle

NextRuns ==
  \/ MainArchive
  \/ MainTrack
  \/ MainInitProgress
  \/ ArchiveAgain
  \/ Relaunch

SpecRuns == InitRuns /\ [][NextRuns]_vars

\* --------------------------- two claude-all.js processes, one working root
\* archivePreviousRun() in the main of the second process
SecondArchive ==
  /\ pc2 = "main_archive"
  /\ ArchiveEffect
  /\ pc2' = "main_track"
  /\ UNCHANGED <<optVars, runs, fnVars, loopVars>>

\* trackCurrentBranch() in the main of the second process
SecondTrack ==
  /\ pc2 = "main_track"
  /\ TrackEffect
  /\ pc2' = "main_init"
  /\ UNCHANGED <<optVars, runs, fnVars, loopVars>>

\* initProgressFile() in the main of the second process
SecondInitProgress ==
  /\ pc2 = "main_init"
  /\ InitProgressEffect
  /\ pc2' = "loop_call"
  /\ UNCHANGED <<optVars, runs, fnVars, loopVars>>

\* the branches of the outgoing and of the new task list
TwoBranches == {<<"ralph/", "a">>, <<"a", "a">>}

\* two processes launched after a branch change: the tracking file names
\* the outgoing branch, the task list another one, and the outgoing run's
\* progress log holds what the agent appended.  Both have found the task
\* list and are about to call archivePreviousRun.
InitTwo ==
  /\ FnIdle
  /\ variant = "cli"
  /\ silent = FALSE
  /\ onIteration = FALSE
  /\ onComplete = FALSE
  /\ maxIterations = 1
  /\ promptExists = TRUE
  /\ inputFile = "none"
  /\ stdin = <<>>
  /\ \E b \in TwoBranches, l \in TwoBranches :
       /\ b # l
       /\ prdFile = ObjectPrd(b, <<"false">>)
       /\ lastBranchFile = [exists |-> TRUE, text |-> l]
  /\ runs = <<>>
  /\ pc = "main_archive"
  /\ pc2 = "main_archive"
  /\ i = 0
  /\ chk = 0
  /\ child = NoChild
  /\ output = <<>>
  /\ live = 0
  /\ invocations = 0
  /\ events = <<>>
  /\ settled = <<>>
  /\ exitCode = NoCode
  /\ result = "none"
  /\ processExit = NoCode
  /\ genResult = "none"
  /\ today \in 1..MaxDay
  /\ progressFile \in {[exists |-> TRUE, started |-> 1, notes |-> n] : n \in 1..MaxNotes}
  /\ archive = <<>>
  /\ lastCall = NoCall
  /\ status = NoStatus
  /\ ops = 0

NextTwo ==
  \/ MainArchive
  \/ MainTrack
  \/ MainInitProgress
  \/ SecondArchive
  \/ SecondTrack
  \/ SecondInitProgress

SpecTwo == InitTwo /\ [][NextTwo]_vars

\* ========================================================= the archiver
RECURSIVE WithoutLeadingBlanks(_)
WithoutLeadingBlanks(s) ==
  IF s # <<>> /\ Head(s) = " " THEN WithoutLeadingBlanks(Tail(s)) ELSE s

RECURSIVE WithoutTrailingBlanks(_)
WithoutTrailingBlanks(s) ==
  IF s # <<>> /\ s[Len(s)] = " "
  THEN WithoutTrailingBlanks(SubSeq(s, 1, Len(s) - 1))
  ELSE s

\* the tracking file's content without surrounding whitespace
TrackedBranch == WithoutTrailingBlanks(WithoutLeadingBlanks(lastBranchFile.text))

\* the previous branch without its ralph/ prefix
TrackedFolderName ==
  IF TrackedBranch # <<>> /\ Head(TrackedBranch) = "ralph/"
  THEN SubSeq(TrackedBranch, 2, Len(TrackedBranch))
  ELSE TrackedBranch

\* this step is a call of archivePreviousRun
ArchiveCalled == lastCall'.op = "archivePreviousRun" /\ ops' = ops + 1

\* the cases in which archiving has nothing to do
ArchiveQuiet ==
  \/ ~lastBranchFile.exists
  \/ prdFile.kind \in {"absent", "corrupt"}
  \/ prdFile.kind \in {"null", "scalar"}
  \/ prdFile.branchName = <<>>
  \/ TrackedBranch = <<>>
  \/ prdFile.branchName = TrackedBranch

\* C9: archivePreviousRun changes no file and creates no folder when the
\* tracking file is absent, the task list is absent or unparseable, either
\* branch name is empty, or the task list's branchName equals the trimmed
\* content of the tracking file.
C9_ArchiveNoOp ==
  [][(ArchiveCalled /\ ArchiveQuiet) =>
       UNCHANGED <<prdFile, lastBranchFile, progressFile, archive>>]_vars

C9_Witness ==
  /\ lastCall.op = "archivePreviousRun"
  /\ lastBranchFile.exists
  /\ lastBranchFile.text = <<"a", " ">>
  /\ prdFile.kind = "object"
  /\ prdFile.branchName = <<"a">>
  /\ progressFile.exists
  /\ progressFile.notes = 1
  /\ archive = <<>>

C11_SnapshotIsOutgoing ==
  [][(ArchiveCalled /\ ~ArchiveQuiet /\ lastCall'.fault = "none") =>
       archive'[<<today, TrackedFolderName>>].prd.branchName = TrackedBranch]_vars

\* this step is a call of initProgressFile
InitProgressCalled == lastCall'.op = "initProgressFile" /\ ops' = ops + 1

\* C14: initProgressFile writes the header exactly when the log is absent
\* and leaves an existing log as it is; the log exists afterwards, so a
\* second call finds it and changes nothing.  No other step changes an
\* existing log, except an archivePreviousRun that triggers, which resets
\* it to the header.
C14_ProgressLogKept ==
  [][/\ InitProgressCalled =>
          /\ progressFile'.exists
          /\ progressFile.exists => progressFile' = progressFile
          /\ ~progressFile.exists =>
                progressFile' = [exists |-> TRUE, started |-> today, notes |-> 0]
     /\ (progressFile.exists /\ progressFile' # progressFile) =>
          /\ ArchiveCalled
          /\ ~ArchiveQuiet
          /\ progressFile' = [exists |-> TRUE, started |-> today, notes |-> 0]]_vars

\* initProgressFile ran on a later day over a log that holds an entry
C14_Witness ==
  /\ lastCall.op = "initProgressFile"
  /\ today = 2
  /\ progressFile = [exists |-> TRUE, started |-> 1, notes |-> 1]

\* C20: called on a missing task-list file or on one that is not valid
\* JSON (an empty file included), hasIncompleteStories returns the record
\* { exists:false, incomplete:false, total:0, remaining:0, completed:0,
\* projectName:null }; whatever the file holds, the call returns a record
\* and changes no file.
C20_StatusOfMissingOrCorrupt ==
  [][(lastCall'.op = "hasIncompleteStories" /\ ops' = ops + 1) =>
       /\ prdFile.kind \in {"absent", "corrupt"} =>
            status' = [exists |-> FALSE, incomplete |-> FALSE, total |-> 0,
                       remaining |-> 0, completed |-> 0, projectName |-> <<>>]
       /\ DOMAIN status' = {"exists", "incomplete", "total", "remaining", "completed",
                            "projectName"}
       /\ status'.total >= 0
       /\ lastCall'.fault = "none"
       /\ UNCHANGED <<prdFile, lastBranchFile, progressFile, archive>>]_vars

C20_Witness ==
  /\ lastCall.op = "hasIncompleteStories"
  /\ prdFile.kind = "corrupt"
  /\ status.exists = FALSE
  /\ status.total = 0

\* ============================================================ the CLI
\* C12: whatever fails inside archivePreviousRun (task list unparseable,
\* tracking file unreadable, mkdir, copy or log write throwing), the call
\* returns normally: the process does not exit, and main goes on to branch
\* tracking, then to the progress-log initialisation, then to the loop.
C12_ArchiveNeverThrows ==
  [][/\ pc = "main_archive" =>
          /\ lastCall'.op = "archivePreviousRun"
          /\ pc' = "main_track"
          /\ UNCHANGED <<result, processExit>>
     /\ pc = "main_track" =>
          /\ lastCall'.op = "trackCurrentBranch"
          /\ pc' = "main_init"
          /\ UNCHANGED <<result, processExit>>
     /\ pc = "main_init" =>
          /\ lastCall'.op = "initProgressFile"
          /\ pc' = "loop_call"
          /\ UNCHANGED <<result, processExit>>]_vars

\* the copy of the task list failed after the folder was made, and the
\* loop is running its first iteration
C12_Witness ==
  /\ pc = "loop_await"
  /\ invocations = 1
  /\ archive # <<>>
  /\ \A f \in DOMAIN archive : archive[f].prd = NoPrd /\ archive[f].progress = NoProgress
  /\ progressFile.notes = MaxNotes

\* C15: no step of the core changes the task-list file: whenever the file
\* changes, the step is the agent's (a claude child is running, or the
\* generation check is waiting for a late write) and nothing of the core's
\* state moves in it.
C15_CoreNeverWritesPrd ==
  [][prdFile' # prdFile =>
       /\ (child.state = "running" \/ pc = "gen_delay")
       /\ UNCHANGED <<optVars, runVars, fnVars, loopVars, fsVars>>]_vars

\* a run that generated a task list, archived the previous run with it and
\* ran the loop to its end, the agent having marked the story
C15_Witness ==
  /\ pc = "done"
  /\ genResult = "true"
  /\ archive # <<>>
  /\ invocations = 1
  /\ prdFile = ObjectPrd(<<"ralph/", "a">>, <<"true">>)
  /\ \A f \in DOMAIN archive : archive[f].prd = ObjectPrd(<<"ralph/", "a">>, <<"false">>)

\* the task-list file is present and syntactically valid JSON
Resumable == prdFile.kind \in {"null", "scalar", "object"}

IsGenSpawn(e) == e = <<"spawn", 0, 0>>

\* this step invokes the generation subprocess
GenerationInvoked ==
  /\ Len(SelectSeq(events', IsGenSpawn)) = Len(SelectSeq(events, IsGenSpawn)) + 1
  /\ live' = live + 1
  /\ pc' = "gen_await"

C17_DescriptionSupersedes ==
  [][(variant = "cli" /\ pc = "main" /\ inputFile = "present" /\ Resumable) =>
       GenerationInvoked]_vars

\* C18: a run with a missing description file named on the command line
\* ends with a non-zero exit, and never invokes a subprocess, whatever the
\* working root holds.
C18_MissingDescriptionAborts ==
  (variant = "cli" /\ inputFile = "missing") =>
    /\ child = NoChild
    /\ live = 0
    /\ invocations = 0
    /\ pc = "done" => processExit = 1

C21_Counts ==
  (lastCall.op = "hasIncompleteStories" /\ prdFile.kind = "object") =>
     LET n == Len(prdFile.passes)
         r == Cardinality({k \in 1..n : prdFile.passes[k] = "false"})
     IN /\ status.total = n
        /\ status.remaining = r
        /\ status.completed = n - r
        /\ status.incomplete = (r > 0)
        /\ status.completed + status.remaining = status.total

\* ----------------------------------------------------- the validator
ValidatorCalled == fn = "validatePrdJson" /\ validation # NoValidation

\* the messages of one kind, in the order they were pushed
ErrorsOfKind(kind) == SelectSeq(validation.errors, LAMBDA e : e.kind = kind)

\* C22: validatePrdJson never throws: for every decoded JSON value it is
\* handed, null and objects whose userStories holds null included, it
\* returns { valid, errors }.
C22_NeverThrows == ValidatorCalled => ~validation.threw

\* C23: a task list without project, branchName and description and whose
\* userStories is no array gets valid = false and exactly four messages,
\* for project, branchName, description and userStories in this order;
\* no story message and no sequencing message.
C23_FourTopLevelErrors ==
  (/\ ValidatorCalled
   /\ prdArg.type # "null"
   /\ prdArg.project = Undefined
   /\ prdArg.branchName = Undefined
   /\ prdArg.description = Undefined
   /\ prdArg.userStories.type # "array") =>
     validation =
       [threw |-> FALSE, valid |-> FALSE,
        errors |-> << [kind |-> "field", index |-> -1, field |-> "project", text |-> <<>>],
                      [kind |-> "field", index |-> -1, field |-> "branchName", text |-> <<>>],
                      [kind |-> "field", index |-> -1, field |-> "description", text |-> <<>>],
                      [kind |-> "field", index |-> -1, field |-> "userStories", text |-> <<>>] >>]

\* an object without the three fields whose userStories is a string
C23_Witness ==
  /\ ValidatorCalled
  /\ prdArg = Prd(Undefined, Undefined, Undefined, Str(<<"t">>), <<>>)
  /\ Len(validation.errors) = 4

\* 'US-' followed by n in three digits
PaddedId(n) ==
  <<"US-", DigitChars[((n \div 100) % 10) + 1], DigitChars[((n \div 10) % 10) + 1],
    DigitChars[(n % 10) + 1]>>

\* C24: for every story array, there is no id-sequence message if and only
\* if the story at every position i (0-based) has the id 'US-' followed by
\* i + 1 in three digits; otherwise there is exactly one, naming the first
\* position that is off.
C24_IdSequence ==
  (ValidatorCalled /\ prdArg.type = "object" /\ IsArray(prdArg.userStories)) =>
     LET stories == prdArg.stories
         off == {k \in 1..Len(stories) : stories[k].id # Str(PaddedId(k))}
         first == CHOOSE k \in off : \A m \in off : k <= m
         idErrors == ErrorsOfKind("ids")
     IN IF off = {} THEN idErrors = <<>>
        ELSE /\ Len(idErrors) = 1
             /\ idErrors[1].index = first - 1
             /\ idErrors[1].text = PaddedId(first)

\* C25: for every story array of length N whose priorities are numbers,
\* there is no priority-sequence message if and only if the priorities, in
\* whatever list order, are a permutation of 1..N; otherwise there is
\* exactly one.
C25_PrioritySequence ==
  (/\ ValidatorCalled
   /\ prdArg.type = "object"
   /\ IsArray(prdArg.userStories)
   /\ \A k \in 1..Len(prdArg.stories) : prdArg.stories[k].priority.type = "number") =>
     LET stories == prdArg.stories
         n == Len(stories)
         permutation == \A m \in 1..n : \E k \in 1..n : stories[k].priority.num = m
     IN /\ ~validation.threw
        /\ Len(ErrorsOfKind("priorities")) = (IF permutation THEN 0 ELSE 1)

\* priorities 2, 1 in list order: accepted
C25_Witness ==
  /\ ValidatorCalled
  /\ Len(prdArg.stories) = 2
  /\ prdArg.stories[1].priority = Num(2)
  /\ prdArg.stories[2].priority = Num(1)
  /\ validation.valid

\* where a message stands: top-level, per story, sequencing
ErrorRank(e) ==
  CASE e.kind \in {"field", "prefix"} -> 0
    [] e.kind = "story" -> 1
    [] OTHER -> 2

FieldPosition(field) == CHOOSE k \in 1..Len(StoryFields) : StoryFields[k] = field

\* C30: for a task list whose userStories is an array of story objects the
\* messages hold exactly one message per failing (story, field) pair over
\* the seven story fields, carrying the story's index, ordered by story
\* index and then by field order, after the top-level messages and before
\* the sequencing messages; valid is true exactly when there is no message.
C30_Accumulates ==
  (/\ ValidatorCalled
   /\ prdArg.type = "object"
   /\ IsArray(prdArg.userStories)
   /\ \A k \in 1..Len(prdArg.stories) : ~prdArg.stories[k].isNull) =>
     LET errs == validation.errors
         stories == prdArg.stories
     IN /\ ~validation.threw
        /\ \A k \in 1..Len(stories), f \in FieldSet :
             Cardinality({j \in 1..Len(errs) : /\ errs[j].kind = "story"
                                                /\ errs[j].index = k - 1
                                                /\ errs[j].field = f})
               = (IF FieldFails(stories[k], f) THEN 1 ELSE 0)
        /\ \A j \in 1..Len(errs) :
             errs[j].kind = "story" =>
               errs[j].index \in 0..(Len(stories) - 1) /\ errs[j].field \in FieldSet
        /\ \A a, b \in 1..Len(errs) :
             a < b =>
               /\ ErrorRank(errs[a]) <= ErrorRank(errs[b])
               /\ (errs[a].kind = "story" /\ errs[b].kind = "story") =>
                    \/ errs[a].index < errs[b].index
                    \/ /\ errs[a].index = errs[b].index
                       /\ FieldPosition(errs[a].field) < FieldPosition(errs[b].field)
        /\ validation.valid = (errs = <<>>)

\* a top-level message, two messages of story 0, one of story 1, then the
\* id-sequence message
C30_Witness ==
  /\ ValidatorCalled
  /\ Len(validation.errors) = 5
  /\ validation.errors[1].kind = "field"
  /\ validation.errors[2].kind = "story" /\ validation.errors[2].index = 0
  /\ validation.errors[3].kind = "story" /\ validation.errors[3].index = 0
  /\ validation.errors[4].kind = "story" /\ validation.errors[4].index = 1
  /\ validation.errors[5].kind = "ids"

\* ------------------------------------------------------- createConfig
\* dir is path, or an ancestor directory of path
IsPrefix(dir, path) == Len(dir) <= Len(path) /\ SubSeq(path, 1, Len(dir)) = dir

\* C26: for all pairs (W, S) of working root and install root with W # S,
\* the task-list path contains W and does not contain S, and the
\* prompt-template path contains S and does not contain W.
C26_PathSeparation ==
  \A k \in 1..Len(configs) :
    LET W == roots[k][1]
        S == roots[k][2]
    IN W # S =>
         /\ Includes(configs[k].PRD_FILE, W)
         /\ ~Includes(configs[k].PRD_FILE, S)
         /\ Includes(configs[k].PROMPT_FILE, S)
         /\ ~Includes(configs[k].PROMPT_FILE, W)

\* C26, amended: the task-list path lies under W and the prompt-template
\* path under S; when neither root is the other or lies inside the other,
\* the task-list path does not lie under S nor the prompt-template path
\* under W.
C26_RootedSeparation ==
  \A k \in 1..Len(configs) :
    LET W == roots[k][1]
        S == roots[k][2]
    IN /\ IsPrefix(W, configs[k].PRD_FILE)
       /\ IsPrefix(S, configs[k].PROMPT_FILE)
       /\ (~IsPrefix(W, S) /\ ~IsPrefix(S, W)) =>
            /\ ~IsPrefix(S, configs[k].PRD_FILE)
            /\ ~IsPrefix(W, configs[k].PROMPT_FILE)

\* working root /a/output, install root /output/a
C26_Witness ==
  /\ Len(configs) >= 1
  /\ roots[1] = << <<"a", "output">>, <<"output", "a">> >>

\* the paths createConfig derives from the working root
WorkingPaths(c) ==
  <<c.OUTPUT_DIR, c.PRD_FILE, c.PROGRESS_FILE, c.ARCHIVE_DIR, c.LAST_BRANCH_FILE>>

\* C27: createConfig is a function of the two roots: equal roots give equal
\* records; changing only W changes the output directory, the task-list,
\* progress-log, archive and tracking paths and not the prompt-template
\* path; changing only S changes the prompt-template path and none of the
\* other five; with W = S both the task list and the prompt template lie
\* where the same rule puts them.
C27_FunctionOfRoots ==
  /\ Len(configs) = 2 =>
       LET c1 == configs[1]
           c2 == configs[2]
           sameW == roots[1][1] = roots[2][1]
           sameS == roots[1][2] = roots[2][2]
       IN /\ (sameW /\ sameS) => c1 = c2
          /\ (~sameW /\ sameS) =>
               /\ \A k \in 1..5 : WorkingPaths(c1)[k] # WorkingPaths(c2)[k]
               /\ c1.PROMPT_FILE = c2.PROMPT_FILE
          /\ (sameW /\ ~sameS) =>
               /\ c1.PROMPT_FILE # c2.PROMPT_FILE
               /\ WorkingPaths(c1) = WorkingPaths(c2)
  /\ \A k \in 1..Len(configs) :
       roots[k][1] = roots[k][2] =>
         /\ configs[k].PRD_FILE = roots[k][1] \o <<"output", "prd.json">>
         /\ configs[k].PROMPT_FILE = roots[k][1] \o <<"lib", "prompt.md">>

\* a self-hosted call, then a call with another working root
C27_Witness ==
  /\ Len(configs) = 2
  /\ roots[1][1] = roots[1][2]
  /\ roots[2][1] # roots[1][1]
  /\ roots[2][2] = roots[1][2]

\* ---------------------------------------------------------- parseArgs
\* C28: parseArgs returns { inputFile: null, maxIterations: 10 } for the
\* empty list; the file and the '--max-iterations N' pair give the same
\* result in either order; an unknown '--flag' is skipped and does not
\* consume the token after it, which is still read as the file or the
\* known flag it is.
C28_ParseArgs ==
  (fn = "parseArgs" /\ parsed # NoParse) =>
     /\ argv = <<>> => parsed = [inputFile |-> <<>>, maxIterations |-> 10]
     /\ argv \in {<<"f.md", "--max-iterations", "3">>, <<"--max-iterations", "3", "f.md">>} =>
          parsed = [inputFile |-> <<"f.md">>, maxIterations |-> 3]
     /\ argv \in {<<"--flag", "f.md">>, <<"--flag", "f.md", "--flag">>} =>
          parsed = [inputFile |-> <<"f.md">>, maxIterations |-> 10]
     /\ argv = <<"--flag", "--max-iterations", "3">> =>
          parsed = [inputFile |-> <<>>, maxIterations |-> 3]

\* an unknown flag in front of the file
C28_Witness ==
  /\ parsed = [inputFile |-> <<"f.md">>, maxIterations |-> 10]
  /\ argv = <<"--flag", "f.md">>

\* ---------------------------------------------------- runClaude's buffer
\* the tokens of the text that came over the channel writing S
OfChannel(text, S) == SelectSeq(text, LAMBDA t : t \in S)

\* a data event of the running child
DataEvent ==
  /\ child.state = "running"
  /\ child'.state = "running"
  /\ live' = live
  /\ events' = events
  /\ output' # output

\* a step that spawns a child
SpawnEvent == events' # events /\ events'[Len(events')][1] = "spawn"

\* C29: runClaude's buffer interleaves the two channels and keeps each
\* channel's order: the buffer starts empty, every data event appends to
\* it, and what it holds of a channel followed by what that channel has
\* yet to deliver never changes, so that the buffer restricted to a channel
\* is a prefix of that channel's stream; the call resolves on close, when
\* nothing is left to deliver, with the buffer as it then stands.
C29_ChannelOrder ==
  [][/\ SpawnEvent => output' = <<>>
     /\ DataEvent =>
          /\ Len(output') > Len(output)
          /\ SubSeq(output', 1, Len(output)) = output
          /\ OfChannel(output', OutTokens) \o child'.out
               = OfChannel(output, OutTokens) \o child.out
          /\ OfChannel(output', ErrTokens) \o child'.err
               = OfChannel(output, ErrTokens) \o child.err
     /\ (pc = "loop_await" /\ settled' # settled) =>
          /\ child.out = <<>>
          /\ child.err = <<>>
          /\ settled' = Append(settled, ContainsSignal(output))]_vars

\* a stderr chunk arrived between two stdout chunks
C29_Witness ==
  /\ child.state = "running"
  /\ output = <<"<promise>COMPLETE", "x", "</promise>">>

\* --------------------------------------------- the validator, sequencing
\* C31: the two sequencing checks are independent and each adds at most one
\* message: a list off in its ids only gets the id message alone, a list
\* off in its priorities only gets the priority message alone, and a list
\* off in both gets the two, priority first.
C31_IndependentSequencing ==
  (ValidatorCalled /\ prdArg.type = "object" /\ IsArray(prdArg.userStories)) =>
     LET stories == prdArg.stories
         n == Len(stories)
         idsOff == \E k \in 1..n : stories[k].id # Str(PaddedId(k))
         prioritiesOff ==
           \/ \E k \in 1..n : stories[k].priority.type # "number"
           \/ \E m \in 1..n : \A k \in 1..n : stories[k].priority.num # m
         sequencing == SelectSeq(validation.errors, LAMBDA e : e.kind \in {"priorities", "ids"})
     IN [k \in 1..Len(sequencing) |-> sequencing[k].kind]
          = (IF prioritiesOff THEN <<"priorities">> ELSE <<>>)
            \o (IF idsOff THEN <<"ids">> ELSE <<>>)

\* C35: for every argument list the maxIterations parseArgs returns is a
\* positive integer, 10 when the flag is absent or is the last token.
C35_PositiveIterations ==
  (fn = "parseArgs" /\ parsed # NoParse) =>
     /\ parsed.maxIterations > 0
     /\ (\A k \in 1..(Len(argv) - 1) : argv[k] # "--max-iterations") =>
          parsed.maxIterations = 10

\* C40: the status reader and the existence check agree on every file
\* content: exists is true exactly when the file is there and parses,
\* whatever JSON value it holds, and total is then the number of stories,
\* 0 without userStories.
C40_StatusAgreesWithExistence ==
  lastCall.op = "hasIncompleteStories" =>
     /\ status.exists = (prdFile.kind \in {"null", "scalar", "object"})
     /\ status.exists => status.total = Len(prdFile.passes)

\* ------------------------------------------------ the marker on stdout
\* C39: if the text the child writes on stdout during an iteration holds
\* the completion marker, the iteration ends in Completed, however the
\* text is split into data events and interleaved with those of stderr.
C39_MarkerOnStdoutCompletes ==
  [][(pc = "loop_await" /\ settled' # settled
        /\ ContainsSignal(OfChannel(output, OutTokens))) =>
       (pc' = "done" /\ result' = "true")]_vars

\* ------------------------------------------------ checkFile's attempts
\* the task-list file is there and parses
FileReady == prdFile.kind \in {"null", "scalar", "object"}

\* the step in which checkFile makes an attempt: the first when the await
\* of runClaude resumes, the later ones when the delay's timer fires
AttemptStep ==
  \/ pc = "gen_await" /\ pc' \in {"gen_delay", "loop_call", "main_archive"}
  \/ pc = "gen_delay" /\ chk' = chk + 1

\* C32: checkFile makes at most 3 attempts with at most 2 delays between
\* them, returns true at the first attempt that finds the task list there
\* and parseable, returns false, without throwing, exactly when the third
\* attempt still finds it absent or unparseable, and returns once the
\* child has closed.
C32_CheckFile ==
  /\ [](chk \in 0..2 /\ (pc = "gen_delay" => chk \in 0..1 /\ genResult = "none"))
  /\ [][AttemptStep =>
          IF FileReady
          THEN genResult' = "true" /\ pc' # "gen_delay"
          ELSE IF chk' < 2
          THEN genResult' = "none" /\ pc' = "gen_delay"
          ELSE genResult' = "false" /\ pc' # "gen_delay" /\ result' = result]_vars
  /\ [][genResult' # genResult => AttemptStep]_vars
  /\ (pc = "gen_delay" ~> genResult # "none")

\* the third attempt found no task list
C32_Witness == chk = 2 /\ genResult = "false" /\ pc = "loop_call"

\* C33 (as stated): trackCurrentBranch never throws and leaves the tracking
\* file as it was when the task list is absent, is not valid JSON or has no
\* branchName; otherwise the tracking file holds exactly the branchName
\* afterwards, and no other file changes.
TrackStep == lastCall'.op = "trackCurrentBranch" /\ ops' = ops + 1

NothingToTrack ==
  \/ prdFile.kind \in {"absent", "corrupt"}
  \/ prdFile.kind \in {"null", "scalar"}
  \/ prdFile.kind = "object" /\ prdFile.branchName = <<>>

TrackReturns ==
  /\ pc' = pc
  /\ result' = result
  /\ processExit' = processExit
  /\ prdFile' = prdFile
  /\ progressFile' = progressFile
  /\ archive' = archive

C33_TrackOverwrites ==
  [][TrackStep =>
       /\ TrackReturns
       /\ IF NothingToTrack
          THEN lastBranchFile' = lastBranchFile
          ELSE lastBranchFile' = [exists |-> TRUE, text |-> prdFile.branchName]]_vars

\* C33 (amended): the same, except that with a branchName to track the
\* tracking file holds exactly the branchName when the write succeeds and
\* is left as it was when the write throws.
C33_TrackOverwritesUnlessWriteFails ==
  [][TrackStep =>
       /\ TrackReturns
       /\ IF NothingToTrack \/ lastCall'.fault = "write"
          THEN lastBranchFile' = lastBranchFile
          ELSE lastBranchFile' = [exists |-> TRUE, text |-> prdFile.branchName]]_vars

C33_Witness ==
  /\ lastCall = [op |-> "trackCurrentBranch", fault |-> "none"]
  /\ prdFile.kind = "object"
  /\ Len(prdFile.branchName) = 2
  /\ lastBranchFile = [exists |-> TRUE, text |-> prdFile.branchName]
  /\ progressFile.exists
  /\ ops = 1

\* C37: archivePreviousRun resets the progress log only after the copies
\* succeeded: whenever a call changes the log, the log is then the fresh
\* header and the archive folder holds the task list and, when there was a
\* log, the log as it was; when mkdirSync or a copy throws, the log is left
\* as it was.
ArchiveStep == lastCall'.op = "archivePreviousRun" /\ ops' = ops + 1

OutgoingFolder == <<today, StripPrefix(Trim(lastBranchFile.text))>>

C37_ResetAfterCopies ==
  [][ArchiveStep =>
       /\ progressFile' # progressFile =>
            /\ progressFile' = [exists |-> TRUE, started |-> today, notes |-> 0]
            /\ OutgoingFolder \in DOMAIN archive'
            /\ archive'[OutgoingFolder].prd = prdFile
            /\ progressFile.exists => archive'[OutgoingFolder].progress = progressFile
       /\ lastCall'.fault \in {"mkdir", "copyPrd", "copyProgress"} =>
            progressFile' = progressFile]_vars

C37_Witness ==
  /\ lastCall = [op |-> "archivePreviousRun", fault |-> "none"]
  /\ progressFile = [exists |-> TRUE, started |-> today, notes |-> 0]
  /\ \E f \in DOMAIN archive :
       /\ archive[f].progress.exists
       /\ archive[f].progress.notes > 0
       /\ archive[f].prd = prdFile

C37_FailedCopyWitness ==
  /\ lastCall = [op |-> "archivePreviousRun", fault |-> "copyProgress"]
  /\ progressFile.exists
  /\ progressFile.notes > 0
  /\ \E f \in DOMAIN archive : archive[f].prd = prdFile /\ ~archive[f].progress.exists

\* C36: archiving happens once per branch change: in a run whose task list
\* has the same non-empty branchName as the run before, archivePreviousRun,
\* trackCurrentBranch and initProgressFile create no archive folder and
\* leave the progress log alone; and an archivePreviousRun called right
\* after trackCurrentBranch changes nothing.
SameBranchRun ==
  /\ Len(runs) >= 2
  /\ runs[Len(runs)] = runs[Len(runs) - 1]
  /\ runs[Len(runs)] # <<>>

C36_OncePerBranchChange ==
  [][(\/ pc \in {"main_archive", "main_track", "main_init"} /\ pc' # pc /\ SameBranchRun
      \/ pc = "main_init" /\ ArchiveStep)
       => archive' = archive /\ progressFile' = progressFile]_vars

\* C38: an archived snapshot is never overwritten: a call of
\* archivePreviousRun leaves every file already in the archive as it is.
C38_SnapshotsKept ==
  [][ArchiveStep =>
       \A f \in DOMAIN archive :
         /\ archive[f].prd.kind # "absent" => archive'[f].prd = archive[f].prd
         /\ archive[f].progress.exists => archive'[f].progress = archive[f].progress]_vars

\* C34: two instances in one working root are not kept apart: when one
\* instance has archived and reset the progress log and has not yet
\* tracked the branch, an archivePreviousRun of the other instance that
\* runs through copies the reset log over the copy in the archive folder,
\* which then is the fresh header and not the outgoing run's log.
OtherHasArchived ==
  \/ pc = "main_archive" /\ pc2 = "main_track"
  \/ pc = "main_track" /\ pc2 = "main_archive"

C34_SecondCopyReplacesLog ==
  [][(ArchiveStep /\ OtherHasArchived /\ progressFile.notes = 0 /\ lastCall'.fault = "none")
       => /\ OutgoingFolder \in DOMAIN archive
          /\ archive'[OutgoingFolder].progress = progressFile
          /\ archive'[OutgoingFolder].progress.notes = 0]_vars

C34_Witness ==
  /\ pc = "main_track"
  /\ pc2 = "main_track"
  /\ lastCall = [op |-> "archivePreviousRun", fault |-> "none"]
  /\ progressFile.notes = 0
  /\ \E f \in DOMAIN archive :
       /\ archive[f].prd = prdFile
       /\ archive[f].progress = [exists |-> TRUE, started |-> today, notes |-> 0]

TypeOK ==
  /\ pc \in {"main", "main_input", "main_archive", "main_track", "main_init",
             "gen_call", "gen_await", "gen_delay", "loop_call", "loop_await",
             "loop_pause", "done"}
  /\ result \in {"none", "true", "false", "error"}
  /\ live \in 0..2
  /\ invocations \in 0..(MaxIter + 1)

====
